---- MODULE Spec2Model ----
(***************************************************************************)
(* Hourly load forecasting notebooks: the sliding-window construction of   *)
(* model inputs (the hand-written shift/dropna cells of the one step       *)
(* univariate notebook and the TimeSeriesTensor utility the other          *)
(* notebooks call), the min-max scaling convention and the evaluation      *)
(* frame.                                                                  *)
(*                                                                         *)
(* Timestamps are integers counting hours, so the table frequency 'H' is   *)
(* the integer 1.  Numbers are exact rationals <<numerator, denominator>>  *)
(* with a positive denominator; the missing value NaN is <<0, 0>>, the     *)
(* infinities are <<1, 0>> and <<-1, 0>>.                                  *)
(***************************************************************************)
EXTENDS Integers, Sequences, FiniteSets, TLC

VARIABLES
    pc,               \* position in the notebook
    kind,             \* which notebook: "uni", "multi" or "tf"
    T,                \* lookback window size (notebook global)
    HORIZON,          \* forecast horizon (notebook global)
    drop_incomplete,  \* TimeSeriesTensor parameter
    csv,              \* rows of data/energy.csv
    energy,           \* table returned by load_data
    valid_start_dt,   \* first timestamp of the validation period
    test_start_dt,    \* first timestamp of the test period
    train,            \* training table
    valid,            \* validation table
    test,             \* test table
    X_scaler,         \* scaler of the input features
    y_scaler,         \* scaler of the target column
    train_inputs,     \* windowed training set
    valid_inputs,     \* windowed validation set
    test_inputs,      \* windowed test set
    predictions,      \* model output on the test inputs
    eval_df,          \* evaluation frame
    score,            \* value returned by mape
    error,            \* exception that ended the run, "" when none did
    \* the loop of repeated experiments
    loop_pc,          \* position in the loop, "off" outside it
    N_EXPERIMENTS,    \* number of iterations of the loop
    ii,               \* iteration that is running, from 1
    val_loss,         \* history.history['val_loss'] of the running iteration
    checkpoints,      \* files model_NN.h5: pairs <<NN, iteration that wrote it>>
    best_epoch,       \* epoch whose weights were loaded, 0 before that
    \* the other arguments of TimeSeriesTensor(dataset, target, H, ...)
    target,           \* target=: the name of the target column
    extra_tensors,    \* tensors declared besides those of the notebook
    \* predict_single_sequence(single_input_seq, horizon, n_features)
    dec_pc,           \* position in the function, "off" outside it
    weights,          \* the trained weights of the encoder and the decoder
    single_input_seq, \* the values of the input sequence
    horizon,          \* number of steps to predict
    states_value,     \* encoder_model.predict(single_input_seq)
    state,            \* the local variable state: <<>> while unbound
    dec_input,        \* dec_input[0, 0, 0]
    output,           \* the predictions collected so far
    calls,            \* the calls of decoder_model.predict made so far
    \* the grid search
    grid_pc,          \* position in the loops, "off" outside them
    T_VALUES,         \* lookbacks searched
    LATENT_DIMS,      \* hidden sizes searched
    BATCH_SIZES,      \* batch sizes searched
    LEARNING_RATES,   \* learning rates searched
    t_index,          \* t of for t, T_val in enumerate(T_VALUES)
    grid_index,       \* position in the list grid, from 1
    mapes_param,      \* the scores of the runs of the current grid point
    mapes,            \* mean score of every cell (t, i, j, k)
    st_errs,          \* squared standard error of every cell
    assigned,         \* number of times every cell has been assigned
    fitted,           \* the models trained for every cell
    training_runs     \* number of models trained so far

loop_vars == <<loop_pc, N_EXPERIMENTS, ii, val_loss, checkpoints, best_epoch>>

\* the variables of the other cells of the notebooks
decoder_vars == <<dec_pc, weights, single_input_seq, horizon, states_value,
                  state, dec_input, output, calls>>

grid_vars == <<grid_pc, T_VALUES, LATENT_DIMS, BATCH_SIZES, LEARNING_RATES,
               t_index, grid_index, mapes_param, mapes, st_errs, assigned,
               fitted, training_runs>>

side_vars == <<loop_vars, target, extra_tensors, decoder_vars, grid_vars>>

\* predict_single_sequence is not running
NoDecoder ==
    /\ dec_pc = "off" /\ weights = <<0, 0>> /\ single_input_seq = <<>>
    /\ horizon = 0 /\ states_value = 0 /\ state = <<>> /\ dec_input = 0
    /\ output = <<>> /\ calls = <<>>

\* the grid search is not running
NoGrid ==
    /\ grid_pc = "off"
    /\ T_VALUES = <<>> /\ LATENT_DIMS = <<>> /\ BATCH_SIZES = <<>>
    /\ LEARNING_RATES = <<>>
    /\ t_index = 0 /\ grid_index = 0
    /\ mapes_param = <<>> /\ mapes = <<>> /\ st_errs = <<>>
    /\ assigned = <<>> /\ fitted = <<>> /\ training_runs = 0

\* the call of the notebooks: target='load' and the notebook's tensors
PlainCall == target = "load" /\ extra_tensors = <<>>

\* no loop of experiments is running
NoLoop ==
    /\ loop_pc = "off" /\ N_EXPERIMENTS = 0 /\ ii = 0
    /\ val_loss = <<>> /\ checkpoints = {} /\ best_epoch = 0

vars == <<pc, kind, T, HORIZON, drop_incomplete, csv, energy, valid_start_dt,
          test_start_dt, train, valid, test, X_scaler, y_scaler, train_inputs,
          valid_inputs, test_inputs, predictions, eval_df, score, error,
          side_vars>>

(***************************************************************************)
(* Bounds of the model.                                                    *)
(***************************************************************************)
MaxRows == 10        \* longest gap-free table handed to the windowing
MaxDefectAt == 4     \* last timestamp that may be missing or hold no value
MaxT == 3            \* largest lookback
MaxH == 2            \* largest horizon
MaxSeed == 0         \* prediction arrays tried per windowed test set
CsvRows == 8         \* hours between the first and the last row of a csv
MaxValidRows == 3    \* most hours between valid_start_dt and test_start_dt
MaxScored == 3       \* most rows of a frame handed to mape on its own

(***************************************************************************)
(* Numbers.                                                                *)
(***************************************************************************)
NaN == <<0, 0>>

Num(n) == <<n, 1>>

\* x / 0 for x > 0 and for x < 0
Infinity == <<1, 0>>

MinusInfinity == <<0 - 1, 0>>

isnull(v) == v[1] = 0 /\ v[2] = 0

\* equality of two numbers as numbers (NaN equals nothing)
NumEq(a, b) == ~isnull(a) /\ ~isnull(b) /\ a[1] * b[2] = b[1] * a[2]

SeqSum(s) == LET RECURSIVE Go(_)
                 Go(i) == IF i = 0 THEN 0 ELSE s[i] + Go(i - 1)
             IN Go(Len(s))

\* python range(a, b)
range(a, b) == [i \in 1..(IF b > a THEN b - a ELSE 0) |-> a + i - 1]

(***************************************************************************)
(* Tables.  A DataFrame is [index, columns, rows]: the timestamps, the     *)
(* column labels and one row of values per timestamp.  A label is a triple *)
(* <<tensor, feature, time step>>; a column of a source table is           *)
(* <<"", name, 0>>.  A Series is [index, values].                          *)
(***************************************************************************)
Column(name) == <<"", name, 0>>

EmptyFrame(columns) == [index |-> <<>>, columns |-> columns, rows |-> <<>>]

ColumnPos(df, label) ==
    CHOOSE j \in 1..Len(df.columns) : df.columns[j] = label

\* df[label]
Col(df, label) ==
    [index |-> df.index,
     values |-> [i \in 1..Len(df.index) |-> df.rows[i][ColumnPos(df, label)]]]

\* the value a series holds at timestamp ts, NaN when ts is not in its index
ValueAt(s, ts) ==
    IF \E i \in 1..Len(s.index) : s.index[i] = ts
    THEN s.values[CHOOSE i \in 1..Len(s.index) : s.index[i] = ts]
    ELSE NaN

\* series.shift(-periods, freq='H'): the index moved the other way
shift_reversed(s, periods) ==
    [index |-> [i \in 1..Len(s.index) |-> s.index[i] - periods],
     values |-> s.values]

\* series.shift(periods) without freq: the values move by periods rows, the
\* index stays, the rows left without a value hold NaN
shift_rows(s, periods) ==
    [index |-> s.index,
     values |-> [i \in 1..Len(s.index) |->
                    IF i - periods \in 1..Len(s.index)
                    THEN s.values[i - periods]
                    ELSE NaN]]

\* series.shift(periods, freq='H'): the index moves by periods hours, the
\* values stay with their rows
shift(s, periods) ==
    [index |-> [i \in 1..Len(s.index) |-> s.index[i] + periods],
     values |-> s.values]

\* df[label] = s for a new label: s is aligned on df's index
SetColumn(df, label, s) ==
    [index |-> df.index,
     columns |-> Append(df.columns, label),
     rows |-> [i \in 1..Len(df.index) |->
                  Append(df.rows[i], ValueAt(s, df.index[i]))]]

\* the positions of the rows that hold a value in the first column
KeptRows_first_column(df) ==
    SelectSeq([i \in 1..Len(df.index) |-> i],
              LAMBDA i : Len(df.columns) = 0 \/ ~isnull(df.rows[i][1]))

\* the positions of the rows dropna(how='any') keeps
KeptRows(df) ==
    SelectSeq([i \in 1..Len(df.index) |-> i],
              LAMBDA i : \A j \in 1..Len(df.columns) : ~isnull(df.rows[i][j]))

\* df.dropna(how='all'): only the rows without any value are dropped
dropna_all(df) ==
    LET keep == SelectSeq([i \in 1..Len(df.index) |-> i],
                          LAMBDA i : \E j \in 1..Len(df.columns) :
                                         ~isnull(df.rows[i][j]))
    IN [index |-> [k \in 1..Len(keep) |-> df.index[keep[k]]],
        columns |-> df.columns,
        rows |-> [k \in 1..Len(keep) |-> df.rows[keep[k]]]]

\* no row dropped
dropna_skipped(df) == df

\* df.dropna(how='any')
dropna(df) ==
    LET keep == KeptRows(df)
    IN [index |-> [k \in 1..Len(keep) |-> df.index[keep[k]]],
        columns |-> df.columns,
        rows |-> [k \in 1..Len(keep) |-> df.rows[keep[k]]]]

\* df[labels].as_matrix(): one row per timestamp, the columns in the order asked
as_matrix(df, labels) ==
    [i \in 1..Len(df.index) |->
        [j \in 1..Len(labels) |-> df.rows[i][ColumnPos(df, labels[j])]]]

\* matrix.reshape(samples, d1, d2, order='F'): column-major order
reshape_column_major(matrix, d1, d2) ==
    [i \in 1..Len(matrix) |->
        [a \in 1..d1 |-> [b \in 1..d2 |-> matrix[i][(b - 1) * d1 + a]]]]

\* matrix.reshape(samples, d1, d2) in row-major order
reshape(matrix, d1, d2) ==
    [i \in 1..Len(matrix) |->
        [a \in 1..d1 |-> [b \in 1..d2 |-> matrix[i][(a - 1) * d2 + b]]]]

\* np.transpose(tensor, axes=[0, 2, 1]) of a (samples, d1, d2) tensor
transpose021(tensor, d1, d2) ==
    [i \in 1..Len(tensor) |->
        [b \in 1..d2 |-> [a \in 1..d1 |-> tensor[i][a][b]]]]

(***************************************************************************)
(* Min-max scaling.  A scaler is [data_min, data_max], one entry per       *)
(* fitted feature.  A feature whose range is zero is scaled by 1.          *)
(***************************************************************************)
Unfitted == [data_min |-> <<>>, data_max |-> <<>>]

n_features(scaler) == Len(scaler.data_min)

\* data_max - data_min, a zero range replaced by 1
data_range(scaler, f) ==
    IF scaler.data_max[f] = scaler.data_min[f]
    THEN 1
    ELSE scaler.data_max[f] - scaler.data_min[f]

\* the fitted feature whose parameters are applied to column j: the
\* parameter vectors broadcast over the columns
Feature(scaler, j) == IF n_features(scaler) = 1 THEN 1 ELSE j

\* (v - data_min) / data_range
transform_value(scaler, f, v) ==
    IF isnull(v)
    THEN NaN
    ELSE <<v[1] - scaler.data_min[f] * v[2], v[2] * data_range(scaler, f)>>

\* v * data_range + data_min
inverse_transform_value(scaler, f, v) ==
    IF isnull(v)
    THEN NaN
    ELSE <<v[1] * data_range(scaler, f) + scaler.data_min[f] * v[2], v[2]>>

(***************************************************************************)
(* The windowing cells of the one step univariate notebook: the target     *)
(* y_t+1 and the T lagged inputs load_t-(T-1) .. load_t-0 are columns      *)
(* shifted in physical time, rows with a missing value are discarded.      *)
(***************************************************************************)
y_col == <<"", "y_t+", 1>>

X_cols(T_) == [t \in 1..T_ |-> <<"", "load_t-", T_ - t>>]

\* for t in range(1, T+1): df['load_t-'+str(T-t)] = df['load'].shift(T-t, freq='H')
RECURSIVE shift_inputs(_, _, _)
shift_inputs(df, T_, t) ==
    IF t > T_
    THEN df
    ELSE shift_inputs(SetColumn(df, X_cols(T_)[t],
                                shift(Col(df, Column("load")), T_ - t)),
                      T_, t + 1)

\* test_shifted: the table with its shifted columns, incomplete rows dropped
shifted(table, T_) ==
    dropna(shift_inputs(SetColumn(table, y_col,
                                  shift(Col(table, Column("load")), -1)),
                        T_, 1))

\* test_shifted['load'].as_matrix(): the load at the anchor itself
load_of(df) == Col(df, Column("load")).values

\* y_test = test_shifted['y_t+1'].as_matrix(): one value per sample
y_of(df) == Col(df, y_col).values

\* test_shifted[X_cols].as_matrix() left as it is: (samples, T)
X_flat(df, T_) == as_matrix(df, X_cols(T_))

\* X_test = test_shifted[X_cols].as_matrix().reshape(samples, T, 1)
X_of(df, T_) == reshape(as_matrix(df, X_cols(T_)), T_, 1)

\* the windowed set of the univariate notebook
univariate_inputs(table, T_) ==
    LET df == shifted(table, T_)
    IN [dataframe |-> df,
        data |-> [name \in {"X", "target"} |->
                     IF name = "X" THEN X_of(df, T_) ELSE y_of(df)]]

(***************************************************************************)
(* TimeSeriesTensor(dataset, target, H, tensor_structure, freq,            *)
(* drop_incomplete).  A tensor structure is a sequence, in declaration     *)
(* order, of [name, rng, cols]: the tensor's name, its time step offsets   *)
(* and its columns.                                                        *)
(***************************************************************************)
\* {'X': (range(-T+1, 1), ['load', 'temp'])}
X_structure(T_) ==
    <<[name |-> "X", rng |-> range(1 - T_, 1), cols |-> <<"load", "temp">>]>>

\* the decoder input declared one step late, on the offsets 1..H
teacher_forcing_late(T_, H) ==
    <<[name |-> "encoder_input", rng |-> range(1 - T_, 1), cols |-> <<"load">>],
      [name |-> "decoder_input", rng |-> range(1, H + 1), cols |-> <<"load">>]>>

\* {'encoder_input': (range(-T+1, 1), ['load']),
\*  'decoder_input': (range(0, HORIZON), ['load'])}
teacher_forcing_structure(T_, H) ==
    <<[name |-> "encoder_input", rng |-> range(1 - T_, 1), cols |-> <<"load">>],
      [name |-> "decoder_input", rng |-> range(0, H), cols |-> <<"load">>]>>

\* the columns of the implicit target tensor: target / y / t+1 .. t+H
target_labels(H) == [h \in 1..H |-> <<"target", "y", h>>]

\* the columns of one declared tensor: for each column, each offset of rng
tensor_labels(tensor) ==
    LET m == Len(tensor.rng)
    IN [k \in 1..(Len(tensor.cols) * m) |->
           <<tensor.name, tensor.cols[((k - 1) \div m) + 1],
             tensor.rng[((k - 1) % m) + 1]>>]

\* the shifted columns in dataframe order with the source column of each:
\* the target columns first, then the declared tensors
RECURSIVE shifted_columns(_, _, _, _)
shifted_columns(target_, H, tensor_structure, i) ==
    IF i = 0
    THEN [h \in 1..H |-> [label |-> target_labels(H)[h], source |-> target_]]
    ELSE shifted_columns(target_, H, tensor_structure, i - 1) \o
         [k \in 1..Len(tensor_labels(tensor_structure[i])) |->
             [label |-> tensor_labels(tensor_structure[i])[k],
              source |-> tensor_labels(tensor_structure[i])[k][2]]]

\* the value at time step t of a column is the column shifted by -t periods
RECURSIVE add_shifted(_, _, _, _)
add_shifted(df, dataset, columns, i) ==
    IF i > Len(columns)
    THEN df
    ELSE add_shifted(SetColumn(df, columns[i].label,
                               shift(Col(dataset, Column(columns[i].source)),
                                     -columns[i].label[3])),
                     dataset, columns, i + 1)

\* the aligned table of all shifted columns, keyed by anchor timestamp
\* (the dataset's own columns are not part of it)
_shift_data(dataset, target_, H, tensor_structure, drop) ==
    LET cols == shifted_columns(target_, H, tensor_structure,
                                Len(tensor_structure))
        df == add_shifted([index |-> dataset.index, columns |-> <<>>,
                           rows |-> [i \in 1..Len(dataset.index) |-> <<>>]],
                          dataset, cols, 1)
    IN IF drop THEN dropna(df) ELSE df

\* the array of one declared tensor: (samples, len(rng), len(cols))
tensor_array(dataframe, tensor) ==
    transpose021(reshape(as_matrix(dataframe, tensor_labels(tensor)),
                         Len(tensor.cols), Len(tensor.rng)),
                 Len(tensor.cols), Len(tensor.rng))

tensor_names(tensor_structure) ==
    {tensor_structure[i].name : i \in 1..Len(tensor_structure)}

\* the named arrays of the dataframe; 'target' is (samples, H)
_df2tensors(dataframe, H, tensor_structure) ==
    [name \in {"target"} \cup tensor_names(tensor_structure) |->
        IF name = "target"
        THEN as_matrix(dataframe, target_labels(H))
        ELSE tensor_array(dataframe,
                 tensor_structure[CHOOSE i \in 1..Len(tensor_structure) :
                                      tensor_structure[i].name = name])]

\* a check of the index that lets an unsorted index pass
is_unique(index) ==
    \A i \in 1..Len(index) : \A j \in 1..Len(index) :
        i # j => index[i] # index[j]

\* the index is sorted ascending and holds no timestamp twice
is_sorted_unique(index) ==
    \A i \in 1..(Len(index) - 1) : index[i] < index[i + 1]

\* a check of the names that lets every name pass
reserved_name_allowed(tensor_structure) == FALSE

\* the tensor structure declares a tensor under the reserved name 'target'
reserved_name_declared(tensor_structure) ==
    "target" \in tensor_names(tensor_structure)

\* the dataset has a column of that name
has_column(dataset, name) ==
    \E j \in 1..Len(dataset.columns) : dataset.columns[j] = Column(name)

\* the error the constructor raises before it shifts anything, "" for none
validate(dataset, target_, tensor_structure) ==
    IF ~is_sorted_unique(dataset.index) THEN "InvalidInputError"
    ELSE IF reserved_name_declared(tensor_structure)
            \/ ~has_column(dataset, target_)
         THEN "ConfigurationError"
         ELSE ""

TimeSeriesTensor(dataset, target_, H, tensor_structure, drop) ==
    LET df == _shift_data(dataset, target_, H, tensor_structure, drop)
    IN [dataframe |-> df, data |-> _df2tensors(df, H, tensor_structure)]

\* dataframe.as_matrix()[:, 1:]: the first column alone is dropped
flat_input_from_1(dataframe, H) ==
    as_matrix(dataframe, SubSeq(dataframe.columns, 2, Len(dataframe.columns)))

\* X = inputs.dataframe.as_matrix()[:, HORIZON:]: the columns after the
\* first HORIZON, row by row
flat_input(dataframe, H) ==
    as_matrix(dataframe, SubSeq(dataframe.columns, H + 1, Len(dataframe.columns)))

(***************************************************************************)
(* The evaluation frame: the predictions in long form, one row per         *)
(* (timestamp, step), with the actual values and both columns brought back *)
(* to original units.                                                      *)
(***************************************************************************)
\* np.transpose of a (rows, cols) matrix
transpose(matrix, rows, cols) ==
    [c \in 1..cols |-> [r \in 1..rows |-> matrix[r][c]]]

\* ndarray.ravel() taken column after column
ravel_by_column(matrix, rows, cols) ==
    [k \in 1..(rows * cols) |-> matrix[((k - 1) % rows) + 1][((k - 1) \div rows) + 1]]

\* ndarray.ravel() of a (rows, cols) matrix: row after row
ravel(matrix, rows, cols) ==
    [k \in 1..(rows * cols) |-> matrix[((k - 1) \div cols) + 1][((k - 1) % cols) + 1]]

\* the long form taken sample after sample instead of step after step
melt_by_sample(timestamp, values, H) ==
    [k \in 1..(Len(timestamp) * H) |->
        [timestamp |-> timestamp[((k - 1) \div H) + 1],
         h |-> ((k - 1) % H) + 1,
         prediction |-> values[((k - 1) \div H) + 1][((k - 1) % H) + 1]]]

\* pd.melt(eval_df, id_vars='timestamp', value_name='prediction', var_name='h'):
\* the value columns t+1 .. t+H one under the other
melt(timestamp, values, H) ==
    LET S == Len(timestamp)
    IN [k \in 1..(S * H) |->
           [timestamp |-> timestamp[((k - 1) % S) + 1],
            h |-> ((k - 1) \div S) + 1,
            prediction |-> values[((k - 1) % S) + 1][((k - 1) \div S) + 1]]]

\* eval_df['actual'] = actual: the values are set by position
with_actual(frame, actual) ==
    [k \in 1..Len(frame) |->
        [timestamp |-> frame[k].timestamp, h |-> frame[k].h,
         prediction |-> frame[k].prediction, actual |-> actual[k]]]

\* eval_df[['prediction', 'actual']] =
\*     scaler.inverse_transform(eval_df[['prediction', 'actual']])
inverse_transform(scaler, frame) ==
    [k \in 1..Len(frame) |->
        [timestamp |-> frame[k].timestamp, h |-> frame[k].h,
         prediction |-> inverse_transform_value(scaler, Feature(scaler, 1),
                                                frame[k].prediction),
         actual |-> inverse_transform_value(scaler, Feature(scaler, 2),
                                            frame[k].actual)]]

\* eval_df = pd.DataFrame(predictions, columns=...) followed by
\* eval_df['timestamp'] = index: a frame of no rows takes the assigned index
\* and fills its prediction columns with NaN; any other frame keeps its rows
\* (the assignment of an index of another length raises ValueError, see
\* assignable)
prediction_frame(predictions_, timestamp, H) ==
    IF Len(predictions_) = 0
    THEN [n \in 1..Len(timestamp) |-> [h \in 1..H |-> NaN]]
    ELSE predictions_

\* whether eval_df['timestamp'] = index is accepted by the frame
assignable(predictions_, timestamp) ==
    Len(predictions_) = 0 \/ Len(predictions_) = Len(timestamp)

\* the evaluation cell of the univariate notebook; y_test has one dimension,
\* which np.transpose(y_test).ravel() returns as it is
evaluation_cell(predictions_, test_shifted, y_test, H, scaler) ==
    inverse_transform(scaler,
        with_actual(melt(test_shifted.index,
                         prediction_frame(predictions_, test_shifted.index, H),
                         H),
                    y_test))

\* create_evaluation_df(predictions, test_inputs, H, scaler): the actual
\* values are np.transpose(test_inputs['target']).ravel()
create_evaluation_df(predictions_, test_inputs_, H, scaler) ==
    LET timestamp == test_inputs_.dataframe.index
        S == Len(timestamp)
    IN inverse_transform(scaler,
           with_actual(melt(timestamp,
                            prediction_frame(predictions_, timestamp, H), H),
                       ravel(transpose(test_inputs_.data["target"], S, H), H, S)))

(***************************************************************************)
(* mape(predictions, actuals): the two columns of the evaluation frame,    *)
(* taken element by element.                                               *)
(***************************************************************************)
RECURSIVE gcd(_, _)
gcd(a, b) == IF b = 0 THEN a ELSE gcd(b, a % b)

\* the same number in lowest terms, the denominator positive
lowest_terms(n, d) ==
    LET g == gcd(IF n < 0 THEN 0 - n ELSE n, IF d < 0 THEN 0 - d ELSE d)
    IN IF d < 0 THEN <<(0 - n) \div g, (0 - d) \div g>> ELSE <<n \div g, d \div g>>

\* a - b
subtract(a, b) ==
    IF a[2] = 0 \/ b[2] = 0
    THEN NaN
    ELSE lowest_terms(a[1] * b[2] - b[1] * a[2], a[2] * b[2])

\* .abs()
abs(v) == <<IF v[1] < 0 THEN 0 - v[1] ELSE v[1], v[2]>>

\* x / a: a finite number divided by zero is an infinity, 0 / 0 is NaN
divide(x, a) ==
    IF isnull(x) \/ isnull(a)
    THEN NaN
    ELSE IF a[1] = 0
         THEN IF x[1] = 0 THEN NaN ELSE IF x[1] > 0 THEN Infinity ELSE MinusInfinity
         ELSE lowest_terms(x[1] * a[2], x[2] * a[1])

\* the sum of finite numbers
RECURSIVE sum(_)
sum(values) ==
    IF values = <<>>
    THEN Num(0)
    ELSE LET rest == sum(Tail(values))
         IN lowest_terms(Head(values)[1] * rest[2] + rest[1] * Head(values)[2],
                         Head(values)[2] * rest[2])

\* Series.mean(): the missing values are skipped (skipna=True); the mean of
\* no value is NaN, a mean over an infinity is that infinity
mean(values) ==
    LET kept == SelectSeq(values, LAMBDA v : ~isnull(v))
    IN IF kept = <<>>
       THEN NaN
       ELSE IF \E k \in 1..Len(kept) : kept[k] = Infinity
            THEN IF \E k \in 1..Len(kept) : kept[k] = MinusInfinity
                 THEN NaN
                 ELSE Infinity
            ELSE IF \E k \in 1..Len(kept) : kept[k] = MinusInfinity
                 THEN MinusInfinity
                 ELSE lowest_terms(sum(kept)[1], sum(kept)[2] * Len(kept))

\* ((predictions - actuals).abs() / predictions).mean()
mape_over_predictions(predictions_, actuals) ==
    mean([k \in 1..Len(predictions_) |->
             divide(abs(subtract(predictions_[k], actuals[k])), predictions_[k])])

\* ((predictions - actuals).abs() / actuals).mean()
mape(predictions_, actuals) ==
    mean([k \in 1..Len(predictions_) |->
             divide(abs(subtract(predictions_[k], actuals[k])), actuals[k])])

(***************************************************************************)
(* Loading, splitting and scaling.  A csv is a sequence of rows            *)
(* [timestamp, load, temp].                                                *)
(***************************************************************************)
MinOf(S) == CHOOSE x \in S : \A y \in S : x <= y

MaxOf(S) == CHOOSE x \in S : \A y \in S : x >= y

\* the csv as it is read, without the reindexing
read_csv(csv_) ==
    [index |-> [i \in 1..Len(csv_) |-> csv_[i].timestamp],
     columns |-> <<Column("load"), Column("temp")>>,
     rows |-> [i \in 1..Len(csv_) |-> <<csv_[i].load, csv_[i].temp>>]]

\* load_data(): the csv reindexed on every hour between its first and its
\* last timestamp; an hour the csv does not hold becomes a row of NaN
load_data(csv_) ==
    LET stamps == {csv_[i].timestamp : i \in 1..Len(csv_)}
        first == MinOf(stamps)
        last == MaxOf(stamps)
        row(ts) == csv_[CHOOSE i \in 1..Len(csv_) : csv_[i].timestamp = ts]
    IN [index |-> [i \in 1..(last - first + 1) |-> first + i - 1],
        columns |-> <<Column("load"), Column("temp")>>,
        rows |-> [i \in 1..(last - first + 1) |->
                     IF first + i - 1 \in stamps
                     THEN <<row(first + i - 1).load, row(first + i - 1).temp>>
                     ELSE <<NaN, NaN>>]]

\* df[names]
select(df, names) ==
    [index |-> df.index,
     columns |-> [j \in 1..Len(names) |-> Column(names[j])],
     rows |-> as_matrix(df, [j \in 1..Len(names) |-> Column(names[j])])]

\* df[mask]: the rows at which the boolean mask holds
where(df, mask) ==
    LET keep == SelectSeq([i \in 1..Len(df.index) |-> i], LAMBDA i : mask[i])
    IN [index |-> [k \in 1..Len(keep) |-> df.index[keep[k]]],
        columns |-> df.columns,
        rows |-> [k \in 1..Len(keep) |-> df.rows[keep[k]]]]

\* the columns each notebook keeps of the energy table
feature_names(kind_) == IF kind_ = "multi" THEN <<"load", "temp">> ELSE <<"load">>

\* energy.copy()[features]: every row, whatever valid_start_dt
all_rows(energy_, valid_start, names) == select(energy_, names)

\* train = energy.copy()[energy.index < valid_start_dt][features]
train_rows(energy_, valid_start, names) ==
    select(where(energy_, [i \in 1..Len(energy_.index) |->
                              energy_.index[i] < valid_start]),
           names)

\* the validation rows taken to the end of the table
valid_rows_to_the_end(energy_, valid_start, test_start, T_, names) ==
    select(where(energy_, [i \in 1..Len(energy_.index) |->
                              energy_.index[i] >= valid_start - (T_ - 1)]),
           names)

\* look_back_dt = valid_start_dt - (T-1) hours
\* valid = energy.copy()[(energy.index >= look_back_dt) &
\*                       (energy.index < test_start_dt)][features]
valid_rows(energy_, valid_start, test_start, T_, names) ==
    select(where(energy_, [i \in 1..Len(energy_.index) |->
                              /\ energy_.index[i] >= valid_start - (T_ - 1)
                              /\ energy_.index[i] < test_start]),
           names)

\* test = energy.copy()[test_start_dt:][features]
test_rows(energy_, test_start, names) ==
    select(where(energy_, [i \in 1..Len(energy_.index) |->
                              energy_.index[i] >= test_start]),
           names)

\* the values a column holds, missing ones left out
column_values(table, j) ==
    {table.rows[i][j][1] : i \in {i \in 1..Len(table.index) : ~isnull(table.rows[i][j])}}

\* a scaler is fitted on at least one row, every column holding a value
fittable(table) ==
    /\ table.index # <<>>
    /\ \A j \in 1..Len(table.columns) : column_values(table, j) # {}

has_nan(table) ==
    \E i \in 1..Len(table.index) :
        \E j \in 1..Len(table.columns) : isnull(table.rows[i][j])

\* MinMaxScaler().fit(table): the minimum and maximum of each column
fit(table) ==
    [data_min |-> [j \in 1..Len(table.columns) |-> MinOf(column_values(table, j))],
     data_max |-> [j \in 1..Len(table.columns) |-> MaxOf(column_values(table, j))]]

\* scaler.transform(table)
transform(scaler, table) ==
    [index |-> table.index,
     columns |-> table.columns,
     rows |-> [i \in 1..Len(table.index) |->
                  [j \in 1..Len(table.columns) |->
                      transform_value(scaler, Feature(scaler, j), table.rows[i][j])]]]

(***************************************************************************)
(* Inputs.  The rows of a table hold load = ts + 1 and temp = 40 - 3 * ts  *)
(* at timestamp ts, so that every cell of a table is told from every       *)
(* other; a table may miss one timestamp or hold one missing value.        *)
(***************************************************************************)
load_at(ts) == Num(ts + 1)

temp_at(ts) == Num(40 - 3 * ts)

Defects(names) ==
    {[type |-> "none", at |-> 0, col |-> "load"]} \cup
    {[type |-> "gap", at |-> g, col |-> "load"] : g \in 0..MaxDefectAt} \cup
    {[type |-> "nan", at |-> g, col |-> c] :
        g \in 0..MaxDefectAt, c \in {names[j] : j \in 1..Len(names)}}

\* defects of the index: two rows out of order, one timestamp twice
IndexDefects ==
    {[type |-> t, at |-> g, col |-> "load"] :
        t \in {"unsorted", "duplicate"}, g \in 0..MaxDefectAt}

\* the table of N hourly rows from timestamp 0 with one defect
Table(names, N, defect) ==
    LET hours == SelectSeq([i \in 1..N |-> i - 1],
                           LAMBDA ts : ~(defect.type = "gap" /\ defect.at = ts))
        at == defect.at + 1
        stamps ==
            IF defect.type = "unsorted" /\ at < Len(hours)
            THEN [i \in 1..Len(hours) |->
                     IF i = at THEN hours[at + 1]
                     ELSE IF i = at + 1 THEN hours[at] ELSE hours[i]]
            ELSE IF defect.type = "duplicate" /\ at <= Len(hours)
            THEN [i \in 1..(Len(hours) + 1) |->
                     IF i <= at THEN hours[i] ELSE hours[i - 1]]
            ELSE hours
        cell(ts, c) == IF defect.type = "nan" /\ defect.at = ts /\ defect.col = c
                       THEN NaN
                       ELSE IF c = "load" THEN load_at(ts) ELSE temp_at(ts)
    IN [index |-> stamps,
        columns |-> [j \in 1..Len(names) |-> Column(names[j])],
        rows |-> [i \in 1..Len(stamps) |->
                     [j \in 1..Len(names) |-> cell(stamps[i], names[j])]]]

\* the tables handed to the windowing; the univariate cells window the
\* frame of load_data, whose index is sorted and unique
Tables(kind_) ==
    {Table(feature_names(kind_), N, d) :
        N \in 0..MaxRows,
        d \in Defects(feature_names(kind_)) \cup
              (IF kind_ = "uni" THEN {} ELSE IndexDefects)}

\* a declaration under the reserved name
ReservedTensor == [name |-> "target", rng |-> <<0>>, cols |-> <<"load">>]

\* target= and the tensors declared besides the notebook's: the notebook's
\* call, a target column that no table has, a tensor named 'target'
Calls(kind_, table) ==
    {<<"load", <<>>>>} \cup
    (IF kind_ # "uni" /\ is_sorted_unique(table.index)
     THEN {<<"price", <<>>>>, <<"load", <<ReservedTensor>>>>}
     ELSE {})

\* the model's answer for S samples: any (S, H) array; arrays whose cells
\* all differ are tried
Predicted(seed, S, H) ==
    [n \in 1..S |-> [h \in 1..H |-> <<seed + (n - 1) * H + h, 10>>]]

\* scalers an evaluation may be given: the identity and one fitted on 2..7
Scalers ==
    {[data_min |-> <<0>>, data_max |-> <<1>>],
     [data_min |-> <<2>>, data_max |-> <<7>>]}

NoInputs == [dataframe |-> EmptyFrame(<<>>), data |-> <<>>]

tensor_structure(kind_, T_, H) ==
    IF kind_ = "tf" THEN teacher_forcing_structure(T_, H) ELSE X_structure(T_)

(***************************************************************************)
(* The windowing and evaluation steps applied to a table.                  *)
(***************************************************************************)
TypeOfRun ==
    /\ kind \in {"uni", "multi", "tf"}
    /\ T \in 1..MaxT
    /\ HORIZON \in IF kind = "uni" THEN {1} ELSE 1..MaxH
    /\ drop_incomplete \in IF kind = "uni" THEN {TRUE} ELSE BOOLEAN

Init ==
    /\ TypeOfRun
    /\ pc = "window_test"
    /\ test \in Tables(kind)
    /\ \E call \in Calls(kind, test) :
           target = call[1] /\ extra_tensors = call[2]
    /\ csv = <<>>
    /\ energy = EmptyFrame(<<>>)
    /\ valid_start_dt = 0
    /\ test_start_dt = 0
    /\ train = EmptyFrame(<<>>)
    /\ valid = EmptyFrame(<<>>)
    /\ X_scaler = Unfitted
    /\ y_scaler = Unfitted
    /\ train_inputs = NoInputs
    /\ valid_inputs = NoInputs
    /\ test_inputs = NoInputs
    /\ predictions = <<>>
    /\ eval_df = <<>>
    /\ score = <<>>
    /\ error = ""
    /\ NoLoop
    /\ NoDecoder
    /\ NoGrid

\* the windowing done on the table itself instead of a copy of it: the
\* table is left with the rows that survive
WindowTest_on_the_table ==
    /\ pc = "window_test"
    /\ test_inputs' =
           IF kind = "uni"
           THEN univariate_inputs(test, T)
           ELSE TimeSeriesTensor(test, "load", HORIZON,
                                 tensor_structure(kind, T, HORIZON),
                                 drop_incomplete)
    /\ test' = where(test, [i \in 1..Len(test.index) |->
                               \E n \in 1..Len(test_inputs'.dataframe.index) :
                                   test_inputs'.dataframe.index[n] = test.index[i]])
    /\ pc' = "predict"
    /\ UNCHANGED <<kind, T, HORIZON, drop_incomplete, csv, energy,
                   valid_start_dt, test_start_dt, train, valid, X_scaler,
                   y_scaler, train_inputs, valid_inputs, predictions, eval_df>>
    /\ UNCHANGED <<score, error>>
    /\ UNCHANGED side_vars

\* test_shifted / X_test / y_test, or
\* test_inputs = TimeSeriesTensor(test, 'load', HORIZON, tensor_structure)
WindowTest ==
    /\ pc = "window_test"
    /\ LET structure == tensor_structure(kind, T, HORIZON) \o extra_tensors
           raised == IF kind = "uni" THEN ""
                     ELSE validate(test, target, structure)
       IN IF raised # ""
          THEN /\ pc' = "error"
               /\ error' = raised
               /\ UNCHANGED test_inputs
          ELSE /\ test_inputs' =
                      IF kind = "uni"
                      THEN univariate_inputs(test, T)
                      ELSE TimeSeriesTensor(test, target, HORIZON, structure,
                                            drop_incomplete)
               /\ pc' = "predict"
               /\ UNCHANGED error
    /\ UNCHANGED <<kind, T, HORIZON, drop_incomplete, csv, energy,
                   valid_start_dt, test_start_dt, train, valid, test, X_scaler,
                   y_scaler, train_inputs, valid_inputs, predictions, eval_df>>
    /\ UNCHANGED score
    /\ UNCHANGED side_vars

\* predictions = model.predict(...): one row per test sample
Predict ==
    /\ pc = "predict"
    /\ \E seed \in 0..MaxSeed :
           predictions' = Predicted(seed, Len(test_inputs.dataframe.index),
                                    HORIZON)
    /\ pc' = "evaluate"
    /\ UNCHANGED <<kind, T, HORIZON, drop_incomplete, csv, energy,
                   valid_start_dt, test_start_dt, train, valid, test, X_scaler,
                   y_scaler, train_inputs, valid_inputs, test_inputs, eval_df>>
    /\ UNCHANGED <<score, error>>
    /\ UNCHANGED side_vars

evaluation(scaler) ==
    IF kind = "uni"
    THEN evaluation_cell(predictions, test_inputs.dataframe,
                         test_inputs.data["target"], HORIZON, scaler)
    ELSE create_evaluation_df(predictions, test_inputs, HORIZON, scaler)

\* predictions handed to the evaluation that were not made from the test
\* samples: an array of no rows, of one row less or of one row more
OtherRowCounts(S) == {rows \in {0, S - 1, S + 1} : rows >= 0 /\ rows # S}

OtherPredictions ==
    /\ pc = "predict"
    /\ \E rows \in OtherRowCounts(Len(test_inputs.dataframe.index)) :
           predictions' = Predicted(0, rows, HORIZON)
    /\ pc' = "evaluate"
    /\ UNCHANGED <<kind, T, HORIZON, drop_incomplete, csv, energy,
                   valid_start_dt, test_start_dt, train, valid, test, X_scaler,
                   y_scaler, train_inputs, valid_inputs, test_inputs, eval_df>>
    /\ UNCHANGED <<score, error>>
    /\ UNCHANGED side_vars

\* the evaluation frame, with a scaler of the caller's choice
EvaluateWith ==
    /\ pc = "evaluate"
    /\ assignable(predictions, test_inputs.dataframe.index)
    /\ \E scaler \in Scalers :
           /\ y_scaler' = scaler
           /\ eval_df' = evaluation(scaler)
    /\ pc' = "done"
    /\ UNCHANGED <<kind, T, HORIZON, drop_incomplete, csv, energy,
                   valid_start_dt, test_start_dt, train, valid, test, X_scaler,
                   train_inputs, valid_inputs, test_inputs, predictions>>
    /\ UNCHANGED <<score, error>>
    /\ UNCHANGED side_vars

\* the evaluation of predictions of another number of rows than the test
\* samples stops with the ValueError of the libraries: the frame raises it
\* when the index is assigned, and for a frame of no rows, which accepts the
\* index, the scaler raises it where its release rejects NaN (where it does
\* not, EvaluateWith builds the frame)
EvaluateRaises ==
    /\ pc = "evaluate"
    /\ Len(predictions) # Len(test_inputs.dataframe.index)
    /\ pc' = "error"
    /\ error' = "ValueError"
    /\ UNCHANGED <<kind, T, HORIZON, drop_incomplete, csv, energy,
                   valid_start_dt, test_start_dt, train, valid, test, X_scaler,
                   y_scaler, train_inputs, valid_inputs, test_inputs,
                   predictions, eval_df>>
    /\ UNCHANGED score
    /\ UNCHANGED side_vars

Next ==
    WindowTest \/ Predict \/ OtherPredictions \/ EvaluateWith \/ EvaluateRaises

Spec == Init /\ [][Next]_vars

(***************************************************************************)
(* The notebooks from the csv to the evaluation frame.                     *)
(***************************************************************************)
\* a csv of the hours 0..CsvRows-1, one of them possibly absent
CsvFile(missing) ==
    LET stamps == SelectSeq([i \in 1..CsvRows |-> i - 1], LAMBDA ts : ts # missing)
    IN [i \in 1..Len(stamps) |->
           [timestamp |-> stamps[i], load |-> load_at(stamps[i]),
            temp |-> temp_at(stamps[i])]]

\* the rows of a csv from the last to the first
Reversed(csv_) == [i \in 1..Len(csv_) |-> csv_[Len(csv_) + 1 - i]]

\* the csv files read: rows in the order of time, and two files, one of them
\* with an hour absent, whose rows are not
CsvFiles ==
    {CsvFile(missing) : missing \in -1..MaxDefectAt} \cup
    {Reversed(CsvFile(missing)) : missing \in {-1, 2}}

windows(table) ==
    IF kind = "uni"
    THEN univariate_inputs(table, T)
    ELSE TimeSeriesTensor(table, "load", HORIZON,
                          tensor_structure(kind, T, HORIZON), drop_incomplete)

InitNotebook ==
    /\ TypeOfRun
    /\ drop_incomplete = TRUE
    /\ pc = "load"
    /\ csv \in CsvFiles
    /\ valid_start_dt \in 0..CsvRows
    /\ test_start_dt \in valid_start_dt..(valid_start_dt + MaxValidRows)
    /\ energy = EmptyFrame(<<>>)
    /\ train = EmptyFrame(<<>>)
    /\ valid = EmptyFrame(<<>>)
    /\ test = EmptyFrame(<<>>)
    /\ X_scaler = Unfitted
    /\ y_scaler = Unfitted
    /\ train_inputs = NoInputs
    /\ valid_inputs = NoInputs
    /\ test_inputs = NoInputs
    /\ predictions = <<>>
    /\ eval_df = <<>>
    /\ score = <<>>
    /\ error = ""
    /\ NoLoop
    /\ NoDecoder
    /\ NoGrid
    /\ PlainCall

\* energy = load_data()
LoadData ==
    /\ pc = "load"
    /\ energy' = IF kind = "uni"
                 THEN select(load_data(csv), <<"load">>)
                 ELSE load_data(csv)
    /\ pc' = "split"
    /\ UNCHANGED <<kind, T, HORIZON, drop_incomplete, csv, valid_start_dt,
                   test_start_dt, train, valid, test, X_scaler, y_scaler,
                   train_inputs, valid_inputs, test_inputs, predictions, eval_df>>
    /\ UNCHANGED <<score, error>>
    /\ UNCHANGED side_vars

\* train = energy.copy()[energy.index < valid_start_dt][...]
CreateTrain ==
    /\ pc = "split"
    /\ train' = train_rows(energy, valid_start_dt, feature_names(kind))
    /\ pc' = "fit"
    /\ UNCHANGED <<kind, T, HORIZON, drop_incomplete, csv, energy,
                   valid_start_dt, test_start_dt, valid, test, X_scaler, y_scaler,
                   train_inputs, valid_inputs, test_inputs, predictions, eval_df>>
    /\ UNCHANGED <<score, error>>
    /\ UNCHANGED side_vars

\* y_scaler.fit(train[['load']]); train[...] = X_scaler.fit_transform(train)
\* (the univariate notebook has the one scaler for both)
FitScalers ==
    /\ pc = "fit"
    /\ fittable(train)
    /\ y_scaler' = fit(select(train, <<"load">>))
    /\ X_scaler' = fit(train)
    /\ train' = transform(fit(train), train)
    /\ pc' = "window_train"
    /\ UNCHANGED <<kind, T, HORIZON, drop_incomplete, csv, energy,
                   valid_start_dt, test_start_dt, valid, test, train_inputs,
                   valid_inputs, test_inputs, predictions, eval_df>>
    /\ UNCHANGED <<score, error>>
    /\ UNCHANGED side_vars

\* train_inputs = TimeSeriesTensor(train, ...), or train_shifted / X_train / y_train
WindowTrain ==
    /\ pc = "window_train"
    /\ train_inputs' = windows(train)
    /\ pc' = "valid"
    /\ UNCHANGED <<kind, T, HORIZON, drop_incomplete, csv, energy,
                   valid_start_dt, test_start_dt, train, valid, test, X_scaler,
                   y_scaler, valid_inputs, test_inputs, predictions, eval_df>>
    /\ UNCHANGED <<score, error>>
    /\ UNCHANGED side_vars

\* valid = energy.copy()[(index >= look_back_dt) & (index < test_start_dt)][...]
\* valid[...] = X_scaler.transform(valid); valid_inputs = TimeSeriesTensor(valid, ...)
PrepareValid ==
    /\ pc = "valid"
    /\ valid_rows(energy, valid_start_dt, test_start_dt, T,
                  feature_names(kind)).index # <<>>
    /\ valid' = transform(X_scaler,
                          valid_rows(energy, valid_start_dt, test_start_dt, T,
                                     feature_names(kind)))
    /\ valid_inputs' = windows(valid')
    /\ pc' = "test"
    /\ UNCHANGED <<kind, T, HORIZON, drop_incomplete, csv, energy,
                   valid_start_dt, test_start_dt, train, test, X_scaler, y_scaler,
                   train_inputs, test_inputs, predictions, eval_df>>
    /\ UNCHANGED <<score, error>>
    /\ UNCHANGED side_vars

\* the scaler the notebook transforms its test rows with
test_scaler == IF kind = "tf" THEN y_scaler ELSE X_scaler

\* test = energy.copy()[test_start_dt:][...]; test[...] = scaler.transform(test)
CreateTest ==
    /\ pc = "test"
    /\ test_rows(energy, test_start_dt, feature_names(kind)).index # <<>>
    /\ test' = transform(test_scaler,
                         test_rows(energy, test_start_dt, feature_names(kind)))
    /\ pc' = "window_test"
    /\ UNCHANGED <<kind, T, HORIZON, drop_incomplete, csv, energy,
                   valid_start_dt, test_start_dt, train, valid, X_scaler, y_scaler,
                   train_inputs, valid_inputs, test_inputs, predictions, eval_df>>
    /\ UNCHANGED <<score, error>>
    /\ UNCHANGED side_vars

\* the table the cell at pc hands to its scaler
scaled_at(pc_) ==
    IF pc_ = "fit"
    THEN train
    ELSE IF pc_ = "valid"
         THEN valid_rows(energy, valid_start_dt, test_start_dt, T,
                         feature_names(kind))
         ELSE test_rows(energy, test_start_dt, feature_names(kind))

\* the scaler raises ValueError: always on a table of no rows (or, when
\* fitting, of a column without a value), and on a missing value with the
\* releases that do not pass NaN through
Raise ==
    /\ pc \in {"fit", "valid", "test"}
    /\ \/ scaled_at(pc).index = <<>>
       \/ has_nan(scaled_at(pc))
    /\ pc' = "error"
    /\ UNCHANGED <<kind, T, HORIZON, drop_incomplete, csv, energy,
                   valid_start_dt, test_start_dt, train, valid, test, X_scaler,
                   y_scaler, train_inputs, valid_inputs, test_inputs, predictions,
                   eval_df>>
    /\ UNCHANGED <<score, error>>
    /\ UNCHANGED side_vars

\* the scaler handed to the evaluation
input_scaler == X_scaler

inverse_scaler == y_scaler

\* eval_df = create_evaluation_df(predictions, test_inputs, HORIZON, y_scaler),
\* or the evaluation cell of the univariate notebook
Evaluate ==
    /\ pc = "evaluate"
    /\ eval_df' = evaluation(inverse_scaler)
    /\ pc' = "done"
    /\ UNCHANGED <<kind, T, HORIZON, drop_incomplete, csv, energy,
                   valid_start_dt, test_start_dt, train, valid, test, X_scaler,
                   y_scaler, train_inputs, valid_inputs, test_inputs, predictions>>
    /\ UNCHANGED <<score, error>>
    /\ UNCHANGED side_vars

NextNotebook ==
    \/ LoadData
    \/ CreateTrain
    \/ FitScalers
    \/ WindowTrain
    \/ PrepareValid
    \/ CreateTest
    \/ Raise
    \/ WindowTest
    \/ Predict
    \/ Evaluate

SpecNotebook == InitNotebook /\ [][NextNotebook]_vars

(***************************************************************************)
(* The metric cell: mape(eval_df['prediction'], eval_df['actual']), on the *)
(* frames of small values a caller may hand it.                            *)
(***************************************************************************)
ScoredPredictions == {Num(0), Num(50), Num(100)}

ScoredActuals == {Num(0 - 50), Num(0), Num(50), Num(100)}

\* the frames of n rows over these values
Frames(n) ==
    {[k \in 1..n |->
         [timestamp |-> k - 1, h |-> 1, prediction |-> values[k][1],
          actual |-> values[k][2]]] :
        values \in [1..n -> ScoredPredictions \X ScoredActuals]}

\* a notebook of which only the evaluation frame matters
NothingRun ==
    /\ kind = "uni" /\ T = 1 /\ HORIZON = 1 /\ drop_incomplete = TRUE
    /\ csv = <<>>
    /\ energy = EmptyFrame(<<>>)
    /\ valid_start_dt = 0
    /\ test_start_dt = 0
    /\ train = EmptyFrame(<<>>)
    /\ valid = EmptyFrame(<<>>)
    /\ test = EmptyFrame(<<>>)
    /\ X_scaler = Unfitted
    /\ y_scaler = Unfitted
    /\ train_inputs = NoInputs
    /\ valid_inputs = NoInputs
    /\ test_inputs = NoInputs
    /\ predictions = <<>>

InitMape ==
    /\ NothingRun
    /\ pc = "done"
    /\ \E n \in 0..MaxScored : eval_df \in Frames(n)
    /\ score = <<>>
    /\ error = ""
    /\ NoLoop
    /\ NoDecoder
    /\ NoGrid
    /\ PlainCall

prediction_column(frame) == [k \in 1..Len(frame) |-> frame[k].prediction]

actual_column(frame) == [k \in 1..Len(frame) |-> frame[k].actual]

\* mape(eval_df['prediction'], eval_df['actual'])
Mape ==
    /\ pc = "done"
    /\ score' = mape(prediction_column(eval_df), actual_column(eval_df))
    /\ pc' = "scored"
    /\ UNCHANGED <<kind, T, HORIZON, drop_incomplete, csv, energy,
                   valid_start_dt, test_start_dt, train, valid, test, X_scaler,
                   y_scaler, train_inputs, valid_inputs, test_inputs, predictions,
                   eval_df, error>>
    /\ UNCHANGED side_vars

NextMape == Mape

SpecMape == InitMape /\ [][NextMape]_vars

(***************************************************************************)
(* The loops of repeated experiments: every iteration trains a new model   *)
(* with ModelCheckpoint('model_{epoch:02d}.h5', save_best_only=True) and   *)
(* EarlyStopping(patience), loads the weights of the best epoch, scores    *)
(* the test set and removes the files model_*.h5.  The grid search runs    *)
(* the same body in nested loops, one iteration after the other.           *)
(***************************************************************************)
EPOCHS == 3           \* epochs=EPOCHS of model.fit
patience == 2         \* EarlyStopping(patience=...)
MaxExperiments == 3   \* largest N_EXPERIMENTS
MaxLoss == 3          \* the validation loss of an epoch is one of 1..MaxLoss

data_vars == <<pc, kind, T, HORIZON, drop_incomplete, csv, energy,
               valid_start_dt, test_start_dt, train, valid, test, X_scaler,
               y_scaler, train_inputs, valid_inputs, test_inputs, predictions,
               eval_df, score>>

\* np.less(current, self.best) of both callbacks, self.best starting at np.Inf:
\* the loss of epoch e is below the loss of every epoch before it
improved(losses, e) == \A k \in 1..(e - 1) : losses[e] < losses[k]

\* the last epoch of least loss in the place of the first
argmin_last(losses) ==
    CHOOSE e \in 1..Len(losses) :
        /\ \A k \in 1..Len(losses) : losses[e] <= losses[k]
        /\ \A k \in (e + 1)..Len(losses) : losses[e] < losses[k]

\* np.argmin(np.array(history.history['val_loss'])) + 1: the first epoch of
\* least loss
argmin(losses) ==
    CHOOSE e \in 1..Len(losses) :
        /\ \A k \in 1..Len(losses) : losses[e] <= losses[k]
        /\ \A k \in 1..(e - 1) : losses[e] < losses[k]

\* EarlyStopping: the epochs run since the last improvement
wait(losses) == IF losses = <<>> THEN 0 ELSE Len(losses) - argmin(losses)

\* model.fit returns after EPOCHS epochs or when EarlyStopping stops it
stopped(losses) == Len(losses) = EPOCHS \/ wait(losses) >= patience

\* ModelCheckpoint writes model_{epoch}.h5 over any file of that name
save(files, epoch, iteration) ==
    {f \in files : f[1] # epoch} \cup {<<epoch, iteration>>}

\* glob('model_*.h5'), written as a selection that keeps nothing but the file
\* that was loaded
glob_loaded(files) == {f \in files : f[1] = best_epoch}

\* glob('model_*.h5'): every checkpoint file has such a name
glob(files) == files

\* files model_NN.h5 left in the directory by an earlier, interrupted run
LeftBehind == {{}} \cup {{<<e, 0>>} : e \in 1..EPOCHS}
                   \cup {{<<e, 0>> : e \in 1..EPOCHS}}

InitLoop ==
    /\ NothingRun
    /\ pc = "experiments"
    /\ eval_df = <<>>
    /\ score = <<>>
    /\ error = ""
    /\ loop_pc = "fit"
    /\ N_EXPERIMENTS \in 1..MaxExperiments
    /\ ii = 1
    /\ val_loss = <<>>
    /\ checkpoints \in LeftBehind
    /\ best_epoch = 0
    /\ NoDecoder
    /\ NoGrid
    /\ PlainCall

\* one epoch of model.fit(..., callbacks=[earlystop, best_val])
FitEpoch ==
    /\ loop_pc = "fit"
    /\ ~stopped(val_loss)
    /\ \E loss \in 1..MaxLoss :
           LET losses == Append(val_loss, loss)
               epoch == Len(losses)
           IN /\ val_loss' = losses
              /\ checkpoints' = IF improved(losses, epoch)
                                THEN save(checkpoints, epoch, ii)
                                ELSE checkpoints
    /\ UNCHANGED <<loop_pc, N_EXPERIMENTS, ii, best_epoch>>
    /\ UNCHANGED <<target, extra_tensors, decoder_vars, grid_vars>>
    /\ UNCHANGED data_vars
    /\ UNCHANGED error

\* best_epoch = np.argmin(...) + 1; model.load_weights("model_NN.h5")
LoadWeights ==
    /\ loop_pc = "fit"
    /\ stopped(val_loss)
    /\ best_epoch' = argmin(val_loss)
    /\ IF \E f \in checkpoints : f[1] = argmin(val_loss)
       THEN loop_pc' = "loaded" /\ UNCHANGED error
       ELSE loop_pc' = "failed" /\ error' = "OSError"
    /\ UNCHANGED <<N_EXPERIMENTS, ii, val_loss, checkpoints>>
    /\ UNCHANGED <<target, extra_tensors, decoder_vars, grid_vars>>
    /\ UNCHANGED data_vars

\* for f in glob('model_*.h5'): os.remove(f), the last statement of the
\* body, and the loop's step to the next iteration
RemoveCheckpoints ==
    /\ loop_pc = "loaded"
    /\ checkpoints' = checkpoints \ glob(checkpoints)
    /\ IF ii < N_EXPERIMENTS
       THEN /\ ii' = ii + 1
            /\ loop_pc' = "fit"
            /\ val_loss' = <<>>
            /\ best_epoch' = 0
       ELSE /\ loop_pc' = "finished"
            /\ UNCHANGED <<ii, val_loss, best_epoch>>
    /\ UNCHANGED N_EXPERIMENTS
    /\ UNCHANGED <<target, extra_tensors, decoder_vars, grid_vars>>
    /\ UNCHANGED data_vars
    /\ UNCHANGED error

NextLoop == FitEpoch \/ LoadWeights \/ RemoveCheckpoints

SpecLoop == InitLoop /\ [][NextLoop]_vars

(***************************************************************************)
(* predict_single_sequence of the encoder-decoder notebook.  The trained   *)
(* networks are any functions of their inputs: here a family of cells over *)
(* the numbers 0..MaxState, one member for each pair of weights.           *)
(***************************************************************************)
MaxState == 2         \* values and hidden states are 0..MaxState
MaxWeight == 2        \* weights of the cells are 0..MaxWeight
MaxHorizon == 3       \* largest horizon handed to predict_single_sequence
MaxSeqLen == 2        \* longest single_input_seq

\* one step of a recurrent cell on input x from state s
cell(x, s) == (weights[1] * s + x + 1) % (MaxState + 1)

\* encoder_model.predict(single_input_seq): the state after the last step
RECURSIVE encoder_model(_, _)
encoder_model(seq, i) ==
    IF i = 0 THEN 0 ELSE cell(seq[i], encoder_model(seq, i - 1))

\* decoder_model.predict([dec_input] + [initial state]): the output of one
\* step and the state after it
decoder_model(x, s) ==
    [yhat |-> (cell(x, s) + weights[2]) % (MaxState + 1), h |-> cell(x, s)]

\* single_input_seq[0, 0, :], the first time step of the sequence
first_step(seq) == seq[1]

\* single_input_seq[0, -1, :], the last time step of the sequence
last_step(seq) == seq[Len(seq)]

InitDecoder ==
    /\ NothingRun
    /\ pc = "decoder"
    /\ eval_df = <<>>
    /\ score = <<>>
    /\ error = ""
    /\ NoLoop
    /\ PlainCall
    /\ NoGrid
    /\ dec_pc = "encode"
    /\ weights \in (0..MaxWeight) \X (0..MaxWeight)
    /\ \E len \in 1..MaxSeqLen : single_input_seq \in [1..len -> 0..MaxState]
    /\ horizon \in 1..MaxHorizon
    /\ states_value = 0
    /\ state = <<>>
    /\ dec_input = 0
    /\ output = <<>>
    /\ calls = <<>>

\* states_value = encoder_model.predict(single_input_seq);
\* dec_input[0, 0, 0] = single_input_seq[0, -1, :]; output = list()
Encode ==
    /\ dec_pc = "encode"
    /\ states_value' = encoder_model(single_input_seq, Len(single_input_seq))
    /\ dec_input' = last_step(single_input_seq)
    /\ output' = <<>>
    /\ dec_pc' = "decode"
    /\ UNCHANGED <<weights, single_input_seq, horizon, state, calls>>
    /\ UNCHANGED <<loop_vars, target, extra_tensors, grid_vars>>
    /\ UNCHANGED data_vars
    /\ UNCHANGED error

\* one pass of for t in range(horizon); calls records the call of
\* decoder_model.predict: its step, its arguments and the state it returned
Decode ==
    /\ dec_pc = "decode"
    /\ Len(output) < horizon
    /\ LET answer == decoder_model(dec_input, states_value)
       IN /\ calls' = Append(calls, [t |-> Len(output),
                                    dec_input |-> dec_input,
                                    initial_state |-> states_value,
                                    h |-> answer.h])
          /\ output' = Append(output, answer.yhat)
          /\ state' = <<answer.h>>
          /\ dec_input' = answer.yhat
    /\ UNCHANGED <<dec_pc, weights, single_input_seq, horizon, states_value>>
    /\ UNCHANGED <<loop_vars, target, extra_tensors, grid_vars>>
    /\ UNCHANGED data_vars
    /\ UNCHANGED error

\* return np.array(output)
Return ==
    /\ dec_pc = "decode"
    /\ Len(output) = horizon
    /\ dec_pc' = "returned"
    /\ UNCHANGED <<weights, single_input_seq, horizon, states_value, state,
                   dec_input, output, calls>>
    /\ UNCHANGED <<loop_vars, target, extra_tensors, grid_vars>>
    /\ UNCHANGED data_vars
    /\ UNCHANGED error

NextDecoder == Encode \/ Decode \/ Return

SpecDecoder == InitDecoder /\ [][NextDecoder]_vars

(***************************************************************************)
(* The grid search of the vector-output notebook: for every lookback of    *)
(* T_VALUES and every point of the grid, N_EXPERIMENTS models are trained  *)
(* and scored, and the mean and the standard error of their scores are     *)
(* stored in mapes[t, i, j, k] and st_errs[t, i, j, k].  The score of a    *)
(* trained model is any number; numbers that differ from run to run are    *)
(* tried.  The standard error is kept as its square.                       *)
(***************************************************************************)
MaxGrid == 2          \* longest list of values of one parameter

ALPHA == <<1, 100>>

\* the lists of the notebook, of which the first n values are searched
AllTValues == <<3, 7, 14>>

AllLatentDims == <<5, 10, 15>>

AllBatchSizes == <<8, 16, 32>>

AllLearningRates == <<(<<1, 100>>), (<<1, 1000>>), (<<1, 10000>>)>>

\* parameters = [list(enumerate(x)) for x in ALL_PARAMS];
\* grid = list(itertools.product(*parameters)): the last index runs fastest
grid ==
    [p \in 1..(Len(LATENT_DIMS) * Len(BATCH_SIZES) * Len(LEARNING_RATES)) |->
        <<(p - 1) \div (Len(BATCH_SIZES) * Len(LEARNING_RATES)),
          ((p - 1) \div Len(LEARNING_RATES)) % Len(BATCH_SIZES),
          (p - 1) % Len(LEARNING_RATES)>>]

\* the cells of np.empty(tuple(lengths))
Cells ==
    {<<t, i, j, k>> : t \in 0..(Len(T_VALUES) - 1),
                      i \in 0..(Len(LATENT_DIMS) - 1),
                      j \in 0..(Len(BATCH_SIZES) - 1),
                      k \in 0..(Len(LEARNING_RATES) - 1)}

\* get_model(LATENT_DIM, LEARNING_RATE, T, ALPHA): a network of LATENT_DIM
\* hidden units on 2*T inputs, trained at LEARNING_RATE
get_model(LATENT_DIM, LEARNING_RATE, T_, ALPHA_) ==
    [LATENT_DIM |-> LATENT_DIM, LEARNING_RATE |-> LEARNING_RATE,
     input_shape |-> 2 * T_, ALPHA |-> ALPHA_]

\* the MAPE of the model trained in run ii_ of a cell
mape_of_run(model, batch_size, ii_) ==
    Num(((model.LATENT_DIM + model.input_shape + batch_size + 3 * ii_) % 7) + 1)

\* a * b
times(a, b) == lowest_terms(a[1] * b[1], a[2] * b[2])

\* the first of the values in the place of their mean
first_value(values) == values[1]

\* np.mean of finite numbers
np_mean(values) == lowest_terms(sum(values)[1], sum(values)[2] * Len(values))

\* the square of np.std(values) / np.sqrt(N_EXPERIMENTS)
st_err_squared(values, N) ==
    LET squares == [n \in 1..Len(values) |-> times(values[n], values[n])]
        variance == subtract(np_mean(squares),
                             times(np_mean(values), np_mean(values)))
    IN lowest_terms(variance[1], variance[2] * N)

InitGrid ==
    /\ NothingRun
    /\ pc = "grid"
    /\ eval_df = <<>>
    /\ score = <<>>
    /\ error = ""
    /\ loop_pc = "off" /\ val_loss = <<>> /\ checkpoints = {} /\ best_epoch = 0
    /\ N_EXPERIMENTS \in 1..MaxExperiments
    /\ ii = 0
    /\ PlainCall
    /\ NoDecoder
    /\ grid_pc = "create_input"
    /\ \E n \in 1..MaxGrid : T_VALUES = SubSeq(AllTValues, 1, n)
    /\ \E n \in 1..MaxGrid : LATENT_DIMS = SubSeq(AllLatentDims, 1, n)
    /\ \E n \in 1..MaxGrid : BATCH_SIZES = SubSeq(AllBatchSizes, 1, n)
    /\ \E n \in 1..MaxGrid : LEARNING_RATES = SubSeq(AllLearningRates, 1, n)
    /\ t_index = 0
    /\ grid_index = 1
    /\ mapes_param = <<>>
    /\ mapes = [c \in Cells |-> "uninitialised"]
    /\ st_errs = [c \in Cells |-> "uninitialised"]
    /\ assigned = [c \in Cells |-> 0]
    /\ fitted = [c \in Cells |-> <<>>]
    /\ training_runs = 0

\* for t, T_val in enumerate(T_VALUES): ... = create_input(T_val), then the
\* first point of the grid: mapes_param = np.empty(N_EXPERIMENTS)
CreateInput ==
    /\ grid_pc = "create_input"
    /\ grid_index' = 1
    /\ mapes_param' = [n \in 1..N_EXPERIMENTS |-> "uninitialised"]
    /\ ii' = 0
    /\ grid_pc' = "experiment"
    /\ UNCHANGED <<T_VALUES, LATENT_DIMS, BATCH_SIZES, LEARNING_RATES, t_index,
                   mapes, st_errs, assigned, fitted, training_runs>>
    /\ UNCHANGED <<loop_pc, N_EXPERIMENTS, val_loss, checkpoints, best_epoch>>
    /\ UNCHANGED <<target, extra_tensors, decoder_vars>>
    /\ UNCHANGED data_vars
    /\ UNCHANGED error

\* one pass of for ii in range(N_EXPERIMENTS): the model is built, trained
\* and scored
Experiment ==
    /\ grid_pc = "experiment"
    /\ LET T_val == T_VALUES[t_index + 1]
           i == grid[grid_index][1]
           j == grid[grid_index][2]
           k == grid[grid_index][3]
           LATENT_DIM == LATENT_DIMS[i + 1]
           BATCH_SIZE == BATCH_SIZES[j + 1]
           LEARNING_RATE == LEARNING_RATES[k + 1]
           model == get_model(BATCH_SIZE, LEARNING_RATE, T_val, ALPHA)
           cell_ == <<t_index, i, j, k>>
       IN /\ fitted' = [fitted EXCEPT ![cell_] =
                           Append(@, [model |-> model, T |-> T_val,
                                      batch_size |-> BATCH_SIZE])]
          /\ mapes_param' = [mapes_param EXCEPT ![ii + 1] =
                                mape_of_run(model, BATCH_SIZE, ii)]
    /\ training_runs' = training_runs + 1
    /\ ii' = ii + 1
    /\ grid_pc' = IF ii + 1 < N_EXPERIMENTS THEN "experiment" ELSE "store"
    /\ UNCHANGED <<T_VALUES, LATENT_DIMS, BATCH_SIZES, LEARNING_RATES, t_index,
                   grid_index, mapes, st_errs, assigned>>
    /\ UNCHANGED <<loop_pc, N_EXPERIMENTS, val_loss, checkpoints, best_epoch>>
    /\ UNCHANGED <<target, extra_tensors, decoder_vars>>
    /\ UNCHANGED data_vars
    /\ UNCHANGED error

\* mapes[t, i,j,k] = np.mean(mapes_param); st_errs[t, i,j,k] = ...; then the
\* next point of the grid, the next lookback, or the end of the loops
Store ==
    /\ grid_pc = "store"
    /\ LET cell_ == <<t_index>> \o grid[grid_index]
       IN /\ mapes' = [mapes EXCEPT ![cell_] = np_mean(mapes_param)]
          /\ st_errs' = [st_errs EXCEPT ![cell_] =
                            st_err_squared(mapes_param, N_EXPERIMENTS)]
          /\ assigned' = [assigned EXCEPT ![cell_] = @ + 1]
    /\ IF grid_index < Len(grid)
       THEN /\ grid_index' = grid_index + 1
            /\ mapes_param' = [n \in 1..N_EXPERIMENTS |-> "uninitialised"]
            /\ ii' = 0
            /\ grid_pc' = "experiment"
            /\ UNCHANGED t_index
       ELSE IF t_index + 1 < Len(T_VALUES)
            THEN /\ t_index' = t_index + 1
                 /\ grid_pc' = "create_input"
                 /\ UNCHANGED <<grid_index, mapes_param, ii>>
            ELSE /\ grid_pc' = "finished"
                 /\ UNCHANGED <<t_index, grid_index, mapes_param, ii>>
    /\ UNCHANGED <<T_VALUES, LATENT_DIMS, BATCH_SIZES, LEARNING_RATES, fitted,
                   training_runs>>
    /\ UNCHANGED <<loop_pc, N_EXPERIMENTS, val_loss, checkpoints, best_epoch>>
    /\ UNCHANGED <<target, extra_tensors, decoder_vars>>
    /\ UNCHANGED data_vars
    /\ UNCHANGED error

NextGrid == CreateInput \/ Experiment \/ Store

SpecGrid == InitGrid /\ [][NextGrid]_vars

(***************************************************************************)
(* Vocabulary of the properties.                                           *)
(***************************************************************************)
Windowed == pc \in {"predict", "evaluate", "done"}

anchors == test_inputs.dataframe.index

samples == Len(anchors)

AnchorSet == {anchors[n] : n \in 1..samples}

Timestamps(table) == {table.index[i] : i \in 1..Len(table.index)}

\* what a table holds at a timestamp in a column, NaN when it holds nothing
Cell(table, name, ts) ==
    IF ts \in Timestamps(table)
    THEN LET i == CHOOSE i \in 1..Len(table.index) : table.index[i] = ts
             j == CHOOSE j \in 1..Len(table.columns) :
                      table.columns[j] = <<"", name, 0>>
         IN table.rows[i][j]
    ELSE NaN

\* the tensors a run declares; the univariate cells build the one tensor X
Declared ==
    IF kind = "uni"
    THEN <<[name |-> "X", rng |-> range(1 - T, 1), cols |-> <<"load">>]>>
    ELSE tensor_structure(kind, T, HORIZON)

DeclaredOffsets ==
    UNION {{Declared[i].rng[s] : s \in 1..Len(Declared[i].rng)} :
              i \in 1..Len(Declared)}

\* L, the lookback: minus the smallest declared offset
Lookback == -(CHOOSE k \in DeclaredOffsets : \A k2 \in DeclaredOffsets : k <= k2)

\* every <<column, offset>> a sample is made of: the declared ones and the
\* target column at 1..H
Needed ==
    {<<"load", h>> : h \in 1..HORIZON} \cup
    UNION {{<<Declared[i].cols[f], Declared[i].rng[s]>> :
               f \in 1..Len(Declared[i].cols), s \in 1..Len(Declared[i].rng)} :
              i \in 1..Len(Declared)}

Complete(table, ts) ==
    \A need \in Needed : ~isnull(Cell(table, need[1], ts + need[2]))

\* consecutive hours, every value present
GapFree(table) ==
    /\ \A i \in 1..Len(table.index) : table.index[i] = table.index[1] + i - 1
    /\ \A i \in 1..Len(table.index) :
           \A j \in 1..Len(table.columns) : ~isnull(table.rows[i][j])

Max0(k) == IF k > 0 THEN k ELSE 0

\* the target value of sample n at step h
TargetOf(n, h) ==
    IF kind = "uni"
    THEN test_inputs.data["target"][n]
    ELSE test_inputs.data["target"][n][h]

(***************************************************************************)
(* C1: a gap-free table of N rows windowed with drop_incomplete gives      *)
(* exactly max(0, N - L - H) samples, L the lookback and H the horizon.    *)
(***************************************************************************)
C1_SampleCount ==
    (Windowed /\ drop_incomplete /\ GapFree(test)) =>
        samples = Max0(Len(test.index) - Lookback - HORIZON)

C1_Witness ==
    /\ Windowed /\ drop_incomplete /\ GapFree(test)
    /\ kind = "multi" /\ T = 3 /\ HORIZON = 2
    /\ Len(test.index) = 10
    /\ samples = 6

NoMissingValue ==
    /\ \A n \in 1..samples : \A h \in 1..HORIZON : ~isnull(TargetOf(n, h))
    /\ \A i \in 1..Len(Declared) :
           \A n \in 1..samples :
               \A s \in 1..Len(Declared[i].rng) :
                   \A f \in 1..Len(Declared[i].cols) :
                       ~isnull(test_inputs.data[Declared[i].name][n][s][f])

(***************************************************************************)
(* C2: with drop_incomplete the surviving anchors are exactly the          *)
(* timestamps of the table whose every needed cell (declared offsets and   *)
(* target offsets 1..H) lies in the table and holds a value; no surviving  *)
(* sample holds a missing value.                                           *)
(***************************************************************************)
C2_SurvivorsAreComplete ==
    (Windowed /\ drop_incomplete) =>
        /\ AnchorSet \subseteq Timestamps(test)
        /\ \A ts \in Timestamps(test) : ts \in AnchorSet <=> Complete(test, ts)
        /\ NoMissingValue

\* a sample inside the table is dropped for a missing value while others survive
C2_Witness ==
    /\ Windowed /\ drop_incomplete
    /\ samples >= 2
    /\ \E ts \in Timestamps(test) :
           /\ ts \notin AnchorSet
           /\ \A need \in Needed : ts + need[2] \in Timestamps(test)

(***************************************************************************)
(* C3: the tensor 'target' is in every result though no spec declares it,  *)
(* it has shape (samples, H) and target[n, h-1] is the target column at    *)
(* anchor n plus h hours.                                                  *)
(***************************************************************************)
C3_TargetTensor ==
    Windowed =>
        /\ "target" \in DOMAIN test_inputs.data
        /\ "target" \notin tensor_names(Declared)
        /\ Len(test_inputs.data["target"]) = samples
        /\ kind # "uni" =>
               \A n \in 1..samples : Len(test_inputs.data["target"][n]) = HORIZON
        /\ \A n \in 1..samples :
               \A h \in 1..HORIZON :
                   TargetOf(n, h) = Cell(test, "load", anchors[n] + h)

C3_Witness ==
    /\ Windowed /\ kind = "tf" /\ HORIZON = 2 /\ samples >= 2
    /\ test_inputs.data["target"][2] = <<Num(5), Num(6)>>

(***************************************************************************)
(* C4: the array of a declared tensor with offsets k_1..k_m and columns    *)
(* c_1..c_p has shape (samples, m, p) and its entry [n, s, f] is column    *)
(* c_f at anchor n plus k_s hours.                                         *)
(***************************************************************************)
C4_TensorLayout ==
    Windowed =>
        \A i \in 1..Len(Declared) :
            LET tensor == Declared[i]
                array == test_inputs.data[tensor.name]
            IN /\ Len(array) = samples
               /\ \A n \in 1..samples :
                      /\ Len(array[n]) = Len(tensor.rng)
                      /\ \A s \in 1..Len(tensor.rng) :
                             /\ Len(array[n][s]) = Len(tensor.cols)
                             /\ \A f \in 1..Len(tensor.cols) :
                                    array[n][s][f] =
                                        Cell(test, tensor.cols[f],
                                             anchors[n] + tensor.rng[s])

\* two columns and three offsets: the sample anchored at hour 2 holds
\* load 1, 2, 3 and temp 40, 37, 34
C4_Witness ==
    /\ Windowed /\ kind = "multi" /\ T = 3 /\ samples >= 1
    /\ test_inputs.data["X"][1] =
           <<(<<Num(1), Num(40)>>), (<<Num(2), Num(37)>>), (<<Num(3), Num(34)>>)>>

Identity == [data_min |-> <<0>>, data_max |-> <<1>>]

SameNumber(a, b) == (isnull(a) /\ isnull(b)) \/ NumEq(a, b)

(***************************************************************************)
(* C5: for predictions of shape (S, H) the evaluation frame has S * H      *)
(* rows, and for every sample n and step h exactly one row (anchor n, t+h) *)
(* that pairs predictions[n, h-1] with target[n, h-1], both in original    *)
(* units (unchanged under the identity scaler).                            *)
(***************************************************************************)
C5_EvaluationRows ==
    (pc = "done" /\ Len(predictions) = samples) =>
        /\ Len(eval_df) = samples * HORIZON
        /\ \A n \in 1..samples :
               \A h \in 1..HORIZON :
                   LET rows == {k \in 1..Len(eval_df) :
                                   /\ eval_df[k].timestamp = anchors[n]
                                   /\ eval_df[k].h = h}
                   IN /\ Cardinality(rows) = 1
                      /\ \A k \in rows :
                             /\ eval_df[k].prediction =
                                    inverse_transform_value(y_scaler, 1,
                                                            predictions[n][h])
                             /\ eval_df[k].actual =
                                    inverse_transform_value(y_scaler, 1,
                                                            TargetOf(n, h))
                             /\ y_scaler = Identity =>
                                    /\ SameNumber(eval_df[k].prediction,
                                                  predictions[n][h])
                                    /\ SameNumber(eval_df[k].actual,
                                                  TargetOf(n, h))

\* 2 samples, horizon 2, predictions [[0.1, 0.2], [0.3, 0.4]], identity scaler
C5_Witness ==
    /\ pc = "done" /\ samples = 2 /\ HORIZON = 2 /\ y_scaler = Identity
    /\ predictions = <<(<<(<<1, 10>>), (<<2, 10>>)>>), (<<(<<3, 10>>), (<<4, 10>>)>>)>>
    /\ \A n \in 1..2 :
           \A h \in 1..2 :
               \E k \in 1..4 :
                   /\ eval_df[k].timestamp = anchors[n]
                   /\ eval_df[k].h = h
                   /\ NumEq(eval_df[k].prediction, <<2 * (n - 1) + h, 10>>)
                   /\ NumEq(eval_df[k].actual, TargetOf(n, h))

NoDefect == [type |-> "none", at |-> 0, col |-> "load"]

InputName == IF kind = "tf" THEN "encoder_input" ELSE "X"

TenRowScenario ==
    /\ Windowed /\ drop_incomplete
    /\ test = Table(<<"load">>, 10, NoDefect)
    /\ T = 3 /\ HORIZON = 1

FirstSampleOfScenario ==
    /\ samples >= 1
    /\ test_inputs.data[InputName][1] = <<(<<Num(1)>>), (<<Num(2)>>), (<<Num(3)>>)>>
    /\ TargetOf(1, 1) = Num(4)

(***************************************************************************)
(* C8 (as stated): 10 hourly rows of load = 1..10 with T = 3 and horizon 1 *)
(* give exactly 6 samples; the first has input 1, 2, 3 and target 4.       *)
(***************************************************************************)
C8_SixSamples ==
    TenRowScenario => (samples = 6 /\ FirstSampleOfScenario)

(***************************************************************************)
(* C8 (amended): 10 hourly rows of load = 1..10 with T = 3 and horizon 1   *)
(* give exactly 7 samples, anchored at hours 2..8; the first has input     *)
(* 1, 2, 3 and target 4.                                                   *)
(***************************************************************************)
C8_SevenSamples ==
    TenRowScenario =>
        /\ samples = 7
        /\ anchors = <<2, 3, 4, 5, 6, 7, 8>>
        /\ FirstSampleOfScenario

C8_Witness ==
    /\ TenRowScenario /\ kind = "uni"
    /\ samples = 7
    /\ test_inputs.data["X"][7] = <<(<<Num(7)>>), (<<Num(8)>>), (<<Num(9)>>)>>
    /\ TargetOf(7, 1) = Num(10)

TooShort == HORIZON > Len(test.index) \/ Lookback > Len(test.index)

\* shifted columns: H target columns and, per tensor, offsets times columns
ShiftedColumnCount ==
    HORIZON + SeqSum([i \in 1..Len(Declared) |->
                         Len(Declared[i].rng) * Len(Declared[i].cols)])

(***************************************************************************)
(* C9: when the horizon or the lookback exceeds the number of rows, the    *)
(* empty table included, the windowing ends with zero samples: no rows,    *)
(* empty arrays, and the columns of every declared offset and column.      *)
(***************************************************************************)
C9_TooShortIsEmpty ==
    (Windowed /\ drop_incomplete /\ TooShort) =>
        /\ samples = 0
        /\ test_inputs.dataframe.rows = <<>>
        /\ \A name \in DOMAIN test_inputs.data : test_inputs.data[name] = <<>>
        /\ Len(test_inputs.dataframe.columns) =
               ShiftedColumnCount + (IF kind = "uni" THEN 1 ELSE 0)

C9_Witness ==
    /\ Windowed /\ drop_incomplete /\ TooShort
    /\ Len(test.index) = 1 /\ HORIZON = 2
    /\ samples = 0

MissingStamps(table) ==
    IF table.index = <<>>
    THEN {}
    ELSE {g \in table.index[1]..table.index[Len(table.index)] :
             g \notin Timestamps(table)}

(***************************************************************************)
(* C10: shifts move in physical time.  In a table that misses timestamp g  *)
(* every value of a surviving sample at offset k is the table's value at   *)
(* anchor + k hours, no surviving window (declared offsets, target offsets *)
(* 1..H) includes g, and none reaches across g.                            *)
(***************************************************************************)
C10_PhysicalTimeShifts ==
    (Windowed /\ drop_incomplete) =>
        \A g \in MissingStamps(test) :
            \A n \in 1..samples :
                /\ \A need \in Needed : anchors[n] + need[2] # g
                /\ ~(anchors[n] - Lookback < g /\ g < anchors[n] + HORIZON)
                /\ \A h \in 1..HORIZON :
                       TargetOf(n, h) = Cell(test, "load", anchors[n] + h)
                /\ \A i \in 1..Len(Declared) :
                       \A s \in 1..Len(Declared[i].rng) :
                           \A f \in 1..Len(Declared[i].cols) :
                               test_inputs.data[Declared[i].name][n][s][f] =
                                   Cell(test, Declared[i].cols[f],
                                        anchors[n] + Declared[i].rng[s])

\* samples survive on both sides of the missing hour
C10_Witness ==
    /\ Windowed /\ drop_incomplete
    /\ \E g \in MissingStamps(test) :
           \E n1, n2 \in 1..samples : anchors[n1] < g /\ g < anchors[n2]

TrainingLoads ==
    {Cell(energy, "load", ts)[1] :
        ts \in {ts \in Timestamps(energy) :
                   ts < valid_start_dt /\ ~isnull(Cell(energy, "load", ts))}}

LoadMin == MinOf(TrainingLoads)

LoadRange ==
    IF MaxOf(TrainingLoads) = MinOf(TrainingLoads)
    THEN 1
    ELSE MaxOf(TrainingLoads) - MinOf(TrainingLoads)

Unscaled(v) == <<v[1] * LoadRange + LoadMin * v[2], v[2]>>

(***************************************************************************)
(* C6: in the evaluation frame of a notebook run both value columns are    *)
(* inverted with the minimum and range of the load column over the         *)
(* training rows, so that the actual value of the row (anchor, h) is the   *)
(* unscaled load of the energy table at anchor + h, whichever scaler       *)
(* scaled the test rows.                                                   *)
(***************************************************************************)
C6_JointInverseTransform ==
    pc = "done" =>
        \A k \in 1..Len(eval_df) :
            LET n == CHOOSE n \in 1..samples : anchors[n] = eval_df[k].timestamp
            IN /\ NumEq(eval_df[k].actual,
                        Cell(energy, "load", eval_df[k].timestamp + eval_df[k].h))
               /\ NumEq(eval_df[k].prediction,
                        Unscaled(predictions[n][eval_df[k].h]))

C6_Witness ==
    /\ pc = "done" /\ kind = "multi" /\ HORIZON = 2
    /\ n_features(X_scaler) = 2 /\ n_features(y_scaler) = 1
    /\ y_scaler.data_min[1] = 1 /\ y_scaler.data_max[1] = 4
    /\ X_scaler.data_min[2] # y_scaler.data_min[1]
    /\ \E k \in 1..Len(eval_df) :
           /\ eval_df[k].timestamp = 5 /\ eval_df[k].h = 2
           /\ NumEq(eval_df[k].actual, Num(8))

\* the csv with other values in one row at or after the timestamp dt: the
\* first such row or the last one
Alternatives(csv_, dt) ==
    LET later == {i \in 1..Len(csv_) : csv_[i].timestamp >= dt}
    IN {[i \in 1..Len(csv_) |->
            IF i = k
            THEN [timestamp |-> csv_[i].timestamp, load |-> Num(100),
                  temp |-> Num(0 - 100)]
            ELSE csv_[i]] :
           k \in {i \in later : i = MinOf(later) \/ i = MaxOf(later)}}

AgreeBefore(a, b, dt) ==
    /\ {ts \in Timestamps(a) : ts < dt} = {ts \in Timestamps(b) : ts < dt}
    /\ \A ts \in {ts \in Timestamps(a) : ts < dt} :
           /\ Cell(a, "load", ts) = Cell(b, "load", ts)
           /\ Cell(a, "temp", ts) = Cell(b, "temp", ts)

Fitted == pc \in {"window_train", "valid", "test", "window_test", "predict",
                  "evaluate", "done"}

(***************************************************************************)
(* C7: the scalers are fitted on the rows before valid_start_dt only: a    *)
(* run on any csv that holds the same rows before valid_start_dt and       *)
(* other values from there on fits the same parameters and scales the      *)
(* training rows to the same values, and these parameters are the ones     *)
(* applied to the validation and the test rows.                            *)
(***************************************************************************)
C7_FittedOnTrainingRowsOnly ==
    Fitted =>
        \A other \in Alternatives(csv, valid_start_dt) :
            LET other_train == train_rows(load_data(other), valid_start_dt,
                                          feature_names(kind))
            IN AgreeBefore(load_data(other), load_data(csv), valid_start_dt) =>
                   /\ X_scaler = fit(other_train)
                   /\ y_scaler = fit(select(other_train, <<"load">>))
                   /\ train = transform(fit(other_train), other_train)
                   /\ pc \in {"test", "window_test", "predict", "evaluate", "done"} =>
                          valid = transform(fit(other_train),
                                            valid_rows(energy, valid_start_dt,
                                                       test_start_dt, T,
                                                       feature_names(kind)))
                   /\ pc \in {"window_test", "predict", "evaluate", "done"} =>
                          test = transform(fit(other_train),
                                           test_rows(energy, test_start_dt,
                                                     feature_names(kind)))

C7_Witness ==
    /\ pc = "done" /\ kind = "multi"
    /\ valid_start_dt = 4 /\ test_start_dt = 5
    /\ X_scaler = [data_min |-> <<1, 31>>, data_max |-> <<4, 40>>]
    /\ Len(train.index) = 4 /\ NumEq(train.rows[2][1], <<1, 3>>)
    /\ \E other \in Alternatives(csv, valid_start_dt) :
           /\ AgreeBefore(load_data(other), load_data(csv), valid_start_dt)
           /\ Cell(load_data(other), "load", 4) = Num(100)
    /\ Len(eval_df) > 0

\* a scalar entry of an array, as opposed to a vector of entries
IsNumber(v) == Len(v) = 2 /\ v[1] \in Int /\ v[2] \in Nat

\* the declared tensors over a single column
SingleColumn == {i \in 1..Len(Declared) : Len(Declared[i].cols) = 1}

(***************************************************************************)
(* C11 (as stated): a tensor declared over a single column is a 2-D array  *)
(* of shape (samples, len(offset range)): its entry [n, s] is a number.    *)
(***************************************************************************)
C11_SingleColumnIs2D ==
    Windowed =>
        \A i \in SingleColumn :
            LET array == test_inputs.data[Declared[i].name]
            IN /\ Len(array) = samples
               /\ \A n \in 1..samples :
                      /\ Len(array[n]) = Len(Declared[i].rng)
                      /\ \A s \in 1..Len(Declared[i].rng) : IsNumber(array[n][s])

(***************************************************************************)
(* C11 (amended): a tensor declared over a single column is a 3-D array of *)
(* shape (samples, len(offset range), 1): its entry [n, s] is a vector of  *)
(* one number, the column at anchor n plus offset s.                       *)
(***************************************************************************)
C11_SingleColumnIs3D ==
    Windowed =>
        \A i \in SingleColumn :
            LET array == test_inputs.data[Declared[i].name]
            IN /\ Len(array) = samples
               /\ \A n \in 1..samples :
                      /\ Len(array[n]) = Len(Declared[i].rng)
                      /\ \A s \in 1..Len(Declared[i].rng) :
                             /\ Len(array[n][s]) = 1
                             /\ IsNumber(array[n][s][1])
                             /\ array[n][s][1] =
                                    Cell(test, Declared[i].cols[1],
                                         anchors[n] + Declared[i].rng[s])

C11_Witness ==
    /\ Windowed /\ kind = "tf" /\ T = 3 /\ HORIZON = 2 /\ samples >= 1
    /\ test_inputs.data["encoder_input"][1] =
           <<(<<Num(1)>>), (<<Num(2)>>), (<<Num(3)>>)>>
    /\ test_inputs.data["decoder_input"][1] = <<(<<Num(3)>>), (<<Num(4)>>)>>

PercentageError(k) ==
    LET p == eval_df[k].prediction
        a == eval_df[k].actual
        d == p[1] * a[2] - a[1] * p[2]
    IN lowest_terms((IF d < 0 THEN 0 - d ELSE d) * a[2], p[2] * a[2] * a[1])

\* the sum of the percentage errors of the rows 1..k
RECURSIVE ErrorSum(_)
ErrorSum(k) ==
    IF k = 0
    THEN <<0, 1>>
    ELSE lowest_terms(PercentageError(k)[1] * ErrorSum(k - 1)[2] +
                          ErrorSum(k - 1)[1] * PercentageError(k)[2],
                      PercentageError(k)[2] * ErrorSum(k - 1)[2])

Scored == pc = "scored"

NoZeroActual == \A k \in 1..Len(eval_df) : eval_df[k].actual[1] # 0

(***************************************************************************)
(* C13: for a frame without a zero actual mape is the mean over all rows   *)
(* of |prediction - actual| / actual; mape([100], [50]) = 1 and            *)
(* mape([50], [100]) = 1/2, so the arguments may not be exchanged.         *)
(***************************************************************************)
C13_MeanAbsolutePercentageError ==
    (Scored /\ NoZeroActual /\ Len(eval_df) > 0) =>
        /\ score = lowest_terms(ErrorSum(Len(eval_df))[1],
                                ErrorSum(Len(eval_df))[2] * Len(eval_df))
        /\ (Len(eval_df) = 1 /\ eval_df[1].prediction = Num(100)
                /\ eval_df[1].actual = Num(50)) => score = <<1, 1>>
        /\ (Len(eval_df) = 1 /\ eval_df[1].prediction = Num(50)
                /\ eval_df[1].actual = Num(100)) => score = <<1, 2>>

\* three rows, one of them with a negative actual: (1 - 3 + 1/2) / 3
C13_Witness ==
    /\ Scored
    /\ prediction_column(eval_df) = <<Num(100), Num(100), Num(50)>>
    /\ actual_column(eval_df) = <<Num(50), Num(0 - 50), Num(100)>>
    /\ score = <<0 - 1, 2>>

(***************************************************************************)
(* C14 (as stated): whenever an actual is zero, mape raises nothing and    *)
(* returns Infinity or NaN, never a finite number, also when the           *)
(* prediction of that row is zero.                                         *)
(***************************************************************************)
C14_ZeroActualIsNeverFinite ==
    (Scored /\ ~NoZeroActual) =>
        /\ error = ""
        /\ score = Infinity \/ isnull(score)

\* the predictions have another number of rows than the surviving anchors
RowsMismatch ==
    /\ pc \in {"evaluate", "done", "error"}
    /\ test_inputs # NoInputs
    /\ Len(predictions) # samples

(***************************************************************************)
(* C15: when the number of prediction rows differs from the number of      *)
(* surviving anchors, building the evaluation frame fails with             *)
(* ShapeMismatchError: the evaluation never ends with a frame, and where   *)
(* it has stopped the error is ShapeMismatchError.                         *)
(***************************************************************************)
C15_ShapeMismatchError ==
    RowsMismatch =>
        /\ pc # "done"
        /\ eval_df = <<>>
        /\ pc = "error" => error = "ShapeMismatchError"

\* the running iteration has not trained an epoch yet
IterationStarts == loop_pc = "fit" /\ val_loss = <<>>

(***************************************************************************)
(* C16: in every iteration of the loop after the first, no checkpoint      *)
(* file written by an earlier iteration (or left by an earlier run)        *)
(* exists: the iteration starts with no file model_*.h5 at all, and every  *)
(* file it sees later is one it wrote itself.                              *)
(***************************************************************************)
C16_CheckpointsLastOneIteration ==
    (loop_pc # "off" /\ ii > 1) =>
        /\ IterationStarts => checkpoints = {}
        /\ \A f \in checkpoints : f[2] = ii

\* the second iteration has trained two improving epochs and sees its own two
\* files only, although the first iteration wrote model_01.h5 too
C16_Witness ==
    /\ loop_pc = "fit" /\ ii = 2
    /\ val_loss = <<3, 2>>
    /\ checkpoints = {<<1, 2>>, <<2, 2>>}

\* the constructor has been called on the table
Constructed == kind # "uni" /\ pc # "window_test"

SortedAscendingAndUnique ==
    \A i \in 1..Len(test.index) : \A j \in 1..Len(test.index) :
        i < j => test.index[i] < test.index[j]

(***************************************************************************)
(* C17: constructing tensors from a table whose index is not sorted        *)
(* ascending or holds a timestamp twice fails with InvalidInputError at    *)
(* construction, and no samples are produced.                              *)
(***************************************************************************)
C17_InvalidInputError ==
    (Constructed /\ ~SortedAscendingAndUnique) =>
        /\ pc = "error"
        /\ error = "InvalidInputError"
        /\ test_inputs = NoInputs

\* a table of the hours 0, 1, 1, 2 was refused
C17_Witness ==
    /\ Constructed /\ PlainCall
    /\ test.index = <<0, 1, 1, 2>>
    /\ pc = "error" /\ error = "InvalidInputError"
    /\ test_inputs = NoInputs

\* the call declares a tensor named 'target'
ReservedNameUsed ==
    \E i \in 1..Len(extra_tensors) : extra_tensors[i].name = "target"

\* the table has the column the call names as its target
TargetColumnExists ==
    \E j \in 1..Len(test.columns) : test.columns[j] = Column(target)

(***************************************************************************)
(* C18: constructing tensors with a tensor declared under the reserved     *)
(* name 'target', or with a target column the table does not have, fails   *)
(* with ConfigurationError; no tensors are produced, so the implicit       *)
(* target tensor is never overwritten by or merged with a declared one.    *)
(***************************************************************************)
C18_ConfigurationError ==
    (Constructed /\ SortedAscendingAndUnique
                 /\ (ReservedNameUsed \/ ~TargetColumnExists)) =>
        /\ pc = "error"
        /\ error = "ConfigurationError"
        /\ test_inputs = NoInputs

\* a call on the hours 0..3 that declares a tensor 'target' was refused
C18_Witness ==
    /\ Constructed /\ ReservedNameUsed /\ TargetColumnExists
    /\ test.index = <<0, 1, 2, 3>>
    /\ pc = "error" /\ error = "ConfigurationError"
    /\ test_inputs = NoInputs

(***************************************************************************)
(* C19: the rows of the evaluation frame are grouped by step first, then   *)
(* by anchor: for S samples, row r (from 0) holds step (r div S) + 1 and   *)
(* anchor r mod S, with the prediction and the actual value of that anchor *)
(* and step, for every horizon.                                            *)
(***************************************************************************)
C19_RowOrder ==
    (pc = "done" /\ Len(predictions) = samples) =>
        \A r \in 0..(Len(eval_df) - 1) :
            LET h == (r \div samples) + 1
                n == (r % samples) + 1
            IN /\ eval_df[r + 1].h = h
               /\ eval_df[r + 1].timestamp = anchors[n]
               /\ eval_df[r + 1].prediction =
                      inverse_transform_value(y_scaler, 1, predictions[n][h])
               /\ eval_df[r + 1].actual =
                      inverse_transform_value(y_scaler, 1, TargetOf(n, h))

\* 3 samples, horizon 2: row 2 is the last anchor at step 1, row 3 the first
\* anchor at step 2, each with its own actual value
C19_Witness ==
    /\ pc = "done" /\ samples = 3 /\ HORIZON = 2 /\ y_scaler = Identity
    /\ Len(predictions) = 3 /\ Len(eval_df) = 6
    /\ eval_df[3].h = 1 /\ eval_df[3].timestamp = anchors[3]
    /\ eval_df[4].h = 2 /\ eval_df[4].timestamp = anchors[1]
    /\ NumEq(eval_df[3].actual, TargetOf(3, 1))
    /\ NumEq(eval_df[4].actual, TargetOf(1, 2))
    /\ ~NumEq(TargetOf(3, 1), TargetOf(1, 2))
    /\ NumEq(eval_df[4].prediction, predictions[1][2])

(***************************************************************************)
(* C20: in predict_single_sequence the decoder call at step 0 receives the *)
(* encoder's final state, and the call at every later step receives the    *)
(* hidden state h returned by the call of the step before.                 *)
(***************************************************************************)
C20_DecoderStateIsCarried ==
    dec_pc \in {"decode", "returned"} =>
        \A k \in 1..Len(calls) :
            calls[k].initial_state =
                IF k = 1 THEN states_value ELSE calls[k - 1].h

(***************************************************************************)
(* C21: in predict_single_sequence the decoder input at step 0 is the last *)
(* time step of the input sequence, the decoder input at every later step  *)
(* is the prediction of the step before, and exactly horizon predictions   *)
(* are returned, in the order of the steps.                                *)
(***************************************************************************)
C21_DecoderInputs ==
    /\ dec_pc \in {"decode", "returned"} =>
           /\ Len(calls) = Len(output)
           /\ Len(output) <= horizon
           /\ \A k \in 1..Len(calls) :
                  /\ calls[k].t = k - 1
                  /\ calls[k].dec_input =
                         IF k = 1
                         THEN single_input_seq[Len(single_input_seq)]
                         ELSE output[k - 1]
                  /\ output[k] = decoder_model(calls[k].dec_input,
                                               calls[k].initial_state).yhat
    /\ dec_pc = "returned" => Len(output) = horizon

\* three steps from the sequence 0, 1 with weights (1, 1): the inputs are
\* 1, then the predictions 1 and 0
C21_Witness ==
    /\ dec_pc = "returned" /\ horizon = 3 /\ weights = <<1, 1>>
    /\ single_input_seq = <<0, 1>>
    /\ Len(output) = 3
    /\ calls[1].dec_input = 1
    /\ calls[2].dec_input = output[1]
    /\ calls[3].dec_input = output[2]
    /\ output[1] # output[2]

(***************************************************************************)
(* C22: every model trained for the cell (t, i, j, k) of the grid search   *)
(* has lookback T_VALUES[t], LATENT_DIMS[i] hidden units, batch size       *)
(* BATCH_SIZES[j] and learning rate LEARNING_RATES[k].                     *)
(***************************************************************************)
C22_GridPointSettings ==
    grid_pc # "off" =>
        \A c \in Cells :
            \A n \in 1..Len(fitted[c]) :
                /\ fitted[c][n].T = T_VALUES[c[1] + 1]
                /\ fitted[c][n].model.input_shape = 2 * T_VALUES[c[1] + 1]
                /\ fitted[c][n].model.LATENT_DIM = LATENT_DIMS[c[2] + 1]
                /\ fitted[c][n].batch_size = BATCH_SIZES[c[3] + 1]
                /\ fitted[c][n].model.LEARNING_RATE = LEARNING_RATES[c[4] + 1]

\* the scores of the runs of a cell, as integers
ScoresOf(c) ==
    [n \in 1..Len(fitted[c]) |->
        mape_of_run(fitted[c][n].model, fitted[c][n].batch_size, n - 1)[1]]

Squares(values) == [n \in 1..Len(values) |-> values[n] * values[n]]

C23_LoadedCheckpointIsOwnBest ==
    /\ loop_pc # "failed"
    /\ loop_pc = "loaded" =>
           /\ best_epoch \in 1..Len(val_loss)
           /\ \A e \in 1..Len(val_loss) : val_loss[best_epoch] <= val_loss[e]
           /\ <<best_epoch, ii>> \in checkpoints
           /\ \A f \in checkpoints : f[1] = best_epoch => f[2] = ii

\* the second iteration had the losses 2, 1, 1: it loaded model_02.h5, which
\* it wrote itself, and wrote no file for the third epoch
C23_Witness ==
    /\ loop_pc = "loaded" /\ ii = 2
    /\ val_loss = <<2, 1, 1>>
    /\ best_epoch = 2
    /\ checkpoints = {<<1, 2>>, <<2, 2>>}

\* the timestamps of the targets of the samples of a split
TargetStamps(inputs) ==
    {inputs.dataframe.index[n] + h :
        n \in 1..Len(inputs.dataframe.index), h \in 1..HORIZON}

\* the timestamps of the declared inputs of the samples of a split
InputStamps(inputs) ==
    {inputs.dataframe.index[n] + k :
        n \in 1..Len(inputs.dataframe.index), k \in DeclaredOffsets}

(***************************************************************************)
(* C25: the splits are separated in time: the inputs and targets of every  *)
(* training sample lie before valid_start_dt, the targets of every         *)
(* validation sample in [valid_start_dt, test_start_dt), the targets of    *)
(* every test sample at or after test_start_dt, and no target timestamp    *)
(* belongs to two splits.                                                  *)
(***************************************************************************)
C25_SplitsSeparatedInTime ==
    /\ \A ts \in TargetStamps(train_inputs) \cup InputStamps(train_inputs) :
           ts < valid_start_dt
    /\ \A ts \in TargetStamps(valid_inputs) :
           valid_start_dt <= ts /\ ts < test_start_dt
    /\ \A ts \in TargetStamps(test_inputs) : test_start_dt <= ts
    /\ TargetStamps(train_inputs) \cap TargetStamps(valid_inputs) = {}
    /\ TargetStamps(train_inputs) \cap TargetStamps(test_inputs) = {}
    /\ TargetStamps(valid_inputs) \cap TargetStamps(test_inputs) = {}

\* lookback 2: training, validation and test samples all exist, and the
\* first validation sample is anchored at valid_start_dt, its first input an
\* hour of the training period
C25_Witness ==
    /\ pc = "done" /\ T = 2
    /\ TargetStamps(train_inputs) # {}
    /\ TargetStamps(test_inputs) # {}
    /\ Len(valid_inputs.dataframe.index) >= 1
    /\ valid_inputs.dataframe.index[1] = valid_start_dt
    /\ valid_start_dt - 1 \in InputStamps(valid_inputs)

(***************************************************************************)
(* C26: the test table handed to the windowing keeps the T-1 look-back     *)
(* rows before test_start_dt: it holds every row of the loaded table from  *)
(* look_back_dt on, so that, the loaded table being gap-free and reaching  *)
(* back that far, the first surviving test anchor is test_start_dt.        *)
(***************************************************************************)
C26_TestKeepsLookBackRows ==
    (Windowed /\ energy.index # <<>>) =>
        /\ \A i \in 1..Len(energy.index) :
               energy.index[i] >= test_start_dt - (T - 1)
                   => energy.index[i] \in Timestamps(test)
        /\ (/\ GapFree(energy)
            /\ energy.index[1] <= test_start_dt - (T - 1)
            /\ samples >= 1) => anchors[1] = test_start_dt

\* the table has been loaded
Loaded == csv # <<>> /\ pc # "load"

CsvStamps == {csv[i].timestamp : i \in 1..Len(csv)}

(***************************************************************************)
(* C27: after load_data the table has exactly one record for every hour    *)
(* between the first and the last timestamp of the csv: the index starts   *)
(* at the minimum, rises by one hour from row to row and has max - min + 1 *)
(* entries; the values of the hours the csv holds are unchanged, and the   *)
(* hours it does not hold are rows of missing values.                      *)
(***************************************************************************)
C27_OneRecordPerHour ==
    Loaded =>
        /\ Len(energy.index) = MaxOf(CsvStamps) - MinOf(CsvStamps) + 1
        /\ energy.index[1] = MinOf(CsvStamps)
        /\ \A i \in 1..(Len(energy.index) - 1) :
               energy.index[i + 1] = energy.index[i] + 1
        /\ \A i \in 1..Len(csv) :
               /\ Cell(energy, "load", csv[i].timestamp) = csv[i].load
               /\ kind # "uni" =>
                      Cell(energy, "temp", csv[i].timestamp) = csv[i].temp
        /\ \A i \in 1..Len(energy.index) :
               energy.index[i] \notin CsvStamps =>
                   \A j \in 1..Len(energy.columns) : isnull(energy.rows[i][j])

\* a csv read from the last hour to the first, hour 2 absent: the table
\* runs from hour 0 to the last hour, with missing values at hour 2 only
C27_Witness ==
    /\ Loaded /\ kind = "multi"
    /\ csv[1].timestamp = CsvRows - 1
    /\ 2 \notin CsvStamps
    /\ Len(csv) = CsvRows - 1
    /\ energy.index = [i \in 1..CsvRows |-> i - 1]
    /\ energy.rows[3] = <<NaN, NaN>>
    /\ energy.rows[4] = <<load_at(3), temp_at(3)>>

(***************************************************************************)
(* C28: with the teacher-forcing tensors (encoder_input on the offsets     *)
(* -T+1..0, decoder_input on 0..H-1, both of the target column) every      *)
(* surviving sample has decoder_input[n, 0] = encoder_input[n, T-1] and    *)
(* decoder_input[n, j+1] = target[n, j] for 0 <= j < H-1: each decoder     *)
(* input is the true value one step before its target.                     *)
(***************************************************************************)
C28_TeacherForcing ==
    (Windowed /\ kind = "tf") =>
        \A n \in 1..samples :
            /\ test_inputs.data["decoder_input"][n][1][1] =
                   test_inputs.data["encoder_input"][n][T][1]
            /\ \A j \in 0..(HORIZON - 2) :
                   test_inputs.data["decoder_input"][n][j + 2][1] =
                       test_inputs.data["target"][n][j + 1]

\* lookback 2, horizon 2 on the loads 1..10: the first sample has encoder
\* input (1, 2), decoder input (2, 3) and target (3, 4)
C28_Witness ==
    /\ Windowed /\ kind = "tf" /\ T = 2 /\ HORIZON = 2 /\ samples >= 1
    /\ test_inputs.data["encoder_input"][1] = <<(<<Num(1)>>), (<<Num(2)>>)>>
    /\ test_inputs.data["decoder_input"][1] = <<(<<Num(2)>>), (<<Num(3)>>)>>
    /\ test_inputs.data["target"][1] = <<Num(3), Num(4)>>

\* the columns of the constructed dataframe that the flat input keeps
FlatColumns ==
    SubSeq(test_inputs.dataframe.columns, HORIZON + 1,
           Len(test_inputs.dataframe.columns))

(***************************************************************************)
(* C29: the flat model input, the constructed dataframe without its first  *)
(* HORIZON columns, has exactly 2*T columns, all of them columns of the    *)
(* tensor 'X' and none a target column (the first HORIZON columns are the  *)
(* target columns); its rows are the surviving anchors in their order, as  *)
(* are the rows of the 'target' tensor: row n holds the values of the      *)
(* table at anchor n shifted by the offset of the column.                  *)
(***************************************************************************)
C29_FlatInput ==
    (Windowed /\ kind = "multi") =>
        LET X_test == flat_input(test_inputs.dataframe, HORIZON)
        IN /\ \A c \in 1..HORIZON :
                  test_inputs.dataframe.columns[c][1] = "target"
           /\ Len(FlatColumns) = 2 * T
           /\ \A c \in 1..Len(FlatColumns) : FlatColumns[c][1] = "X"
           /\ Len(X_test) = samples
           /\ Len(test_inputs.data["target"]) = samples
           /\ \A n \in 1..samples :
                  /\ Len(X_test[n]) = 2 * T
                  /\ \A c \in 1..(2 * T) :
                         X_test[n][c] = Cell(test, FlatColumns[c][2],
                                             anchors[n] + FlatColumns[c][3])

\* lookback 2, horizon 2 on loads 1..10 and temperatures 40, 37, ..: the
\* first row of the flat input is load(0), load(1), temp(0), temp(1)
C29_Witness ==
    /\ Windowed /\ kind = "multi" /\ T = 2 /\ HORIZON = 2 /\ samples >= 2
    /\ Len(test_inputs.dataframe.columns) = 6
    /\ flat_input(test_inputs.dataframe, HORIZON)[1] =
           <<Num(1), Num(2), Num(40), Num(37)>>
    /\ anchors[1] = 1

(***************************************************************************)
(* The create_input calls of the grid search: the cells before the loop    *)
(* load the csv, split off the global train table and fit the scalers on   *)
(* it; the loop then calls create_input(T_val) for each value of T_VALUES  *)
(* in turn.                                                                *)
(***************************************************************************)
\* the look backs of a grid search, in increasing order as the notebook's
LookBacks ==
    {<<a>> : a \in 1..MaxT} \cup
    {look_backs \in (1..MaxT) \X (1..MaxT) : look_backs[1] < look_backs[2]}

\* a table transformed on top of an earlier transformation
scaled_twice(table) == transform(X_scaler, transform(X_scaler, table))

\* valid[['load', 'temp']] = X_scaler.transform(valid)
scaled(table) == transform(X_scaler, table)

InitCreateInput ==
    /\ kind = "multi"
    /\ T = MaxT
    /\ HORIZON \in 1..MaxH
    /\ drop_incomplete = TRUE
    /\ pc = "load"
    /\ csv \in CsvFiles
    /\ valid_start_dt \in 0..CsvRows
    /\ test_start_dt \in valid_start_dt..(valid_start_dt + MaxValidRows)
    /\ energy = EmptyFrame(<<>>)
    /\ train = EmptyFrame(<<>>)
    /\ valid = EmptyFrame(<<>>)
    /\ test = EmptyFrame(<<>>)
    /\ X_scaler = Unfitted
    /\ y_scaler = Unfitted
    /\ train_inputs = NoInputs
    /\ valid_inputs = NoInputs
    /\ test_inputs = NoInputs
    /\ predictions = <<>>
    /\ eval_df = <<>>
    /\ score = <<>>
    /\ error = ""
    /\ NoLoop
    /\ NoDecoder
    /\ PlainCall
    /\ grid_pc = "create_input"
    /\ T_VALUES \in LookBacks
    /\ LATENT_DIMS = <<>> /\ BATCH_SIZES = <<>> /\ LEARNING_RATES = <<>>
    /\ t_index = 0 /\ grid_index = 0
    /\ mapes_param = <<>> /\ mapes = <<>> /\ st_errs = <<>>
    /\ assigned = <<>> /\ fitted = <<>> /\ training_runs = 0

\* the rows create_input(T_val) takes from energy for its validation table
valid_of(T_val) ==
    valid_rows(energy, valid_start_dt, test_start_dt, T_val, feature_names(kind))

\* the rows create_input takes from energy for its test table
test_of == test_rows(energy, test_start_dt, feature_names(kind))

\* TimeSeriesTensor(table, 'load', HORIZON, tensor_structure) in create_input(T_val)
inputs_of(table, T_val) ==
    TimeSeriesTensor(table, "load", HORIZON, X_structure(T_val), drop_incomplete)

\* for t, T_val in enumerate(T_VALUES): ... = create_input(T_val)
create_input ==
    /\ grid_pc = "create_input"
    /\ pc = "window_train"
    /\ t_index < Len(T_VALUES)
    /\ LET T_val == T_VALUES[t_index + 1]
       IN /\ valid_of(T_val).index # <<>>
          /\ test_of.index # <<>>
          /\ T' = T_val
          /\ train_inputs' = inputs_of(train, T_val)
          /\ valid' = scaled(valid_of(T_val))
          /\ valid_inputs' = inputs_of(valid', T_val)
          /\ test' = scaled(test_of)
          /\ test_inputs' = inputs_of(test', T_val)
    /\ t_index' = t_index + 1
    /\ UNCHANGED <<kind, HORIZON, drop_incomplete, csv, energy, valid_start_dt,
                   test_start_dt, train, X_scaler, y_scaler, predictions,
                   eval_df, score, error, pc>>
    /\ UNCHANGED <<grid_pc, T_VALUES, LATENT_DIMS, BATCH_SIZES, LEARNING_RATES,
                   grid_index, mapes_param, mapes, st_errs, assigned, fitted,
                   training_runs>>
    /\ UNCHANGED <<loop_vars, target, extra_tensors, decoder_vars>>

\* X_scaler.transform raises ValueError in create_input: always on a table of
\* no rows, and on a missing value with the releases that do not pass NaN on
create_input_raises ==
    /\ grid_pc = "create_input"
    /\ pc = "window_train"
    /\ t_index < Len(T_VALUES)
    /\ LET T_val == T_VALUES[t_index + 1]
       IN \/ valid_of(T_val).index = <<>>
          \/ has_nan(valid_of(T_val))
          \/ test_of.index = <<>>
          \/ has_nan(test_of)
    /\ pc' = "error"
    /\ UNCHANGED <<kind, T, HORIZON, drop_incomplete, csv, energy,
                   valid_start_dt, test_start_dt, train, valid, test, X_scaler,
                   y_scaler, train_inputs, valid_inputs, test_inputs,
                   predictions, eval_df, score, error>>
    /\ UNCHANGED side_vars

NextCreateInput ==
    \/ LoadData
    \/ CreateTrain
    \/ FitScalers
    \/ Raise
    \/ create_input
    \/ create_input_raises

SpecCreateInput == InitCreateInput /\ [][NextCreateInput]_vars

\* the tables handed to TimeSeriesTensor by the create_input calls made
HandedOver == <<train, valid, test>>

\* every value of the table is the training-fitted X_scaler's single
\* transformation of the value energy holds at the same hour and column
ScaledOnce(table) ==
    /\ Len(table.columns) = 2
    /\ \A i \in 1..Len(table.index) :
           \A j \in 1..2 :
               table.rows[i][j] =
                   transform_value(fit(train_rows(energy, valid_start_dt,
                                                  <<"load", "temp">>)),
                                   j,
                                   Cell(energy, table.columns[j][2],
                                        table.index[i]))

\* the hours of energy from the first to the one before the last
Between(first, last) ==
    SelectSeq(energy.index, LAMBDA ts : ts >= first /\ ts < last)

(***************************************************************************)
(* C30: after any number of create_input calls of the grid search, every   *)
(* value of the train, validation and test tables handed to                *)
(* TimeSeriesTensor has been min-max transformed exactly once with the     *)
(* X_scaler fitted on the training rows: the global train table is the one *)
(* scaled before the loop, and the validation and the test table are taken *)
(* anew from the unscaled energy table by each call, for its look back.    *)
(***************************************************************************)
C30_ScaledExactlyOnce ==
    (grid_pc = "create_input" /\ t_index >= 1) =>
        /\ \A k \in 1..3 : ScaledOnce(HandedOver[k])
        /\ train.index = Between(0 - 1, valid_start_dt)
        /\ valid.index = Between(valid_start_dt - (T_VALUES[t_index] - 1),
                                 test_start_dt)
        /\ test.index = Between(test_start_dt, CsvRows + 1)
        /\ train_inputs = inputs_of(train, T_VALUES[t_index])
        /\ valid_inputs = inputs_of(valid, T_VALUES[t_index])
        /\ test_inputs = inputs_of(test, T_VALUES[t_index])

\* a second call, with another look back, on tables whose scaled values
\* differ from the unscaled ones
C30_Witness ==
    /\ grid_pc = "create_input" /\ t_index = 2 /\ pc = "window_train"
    /\ T_VALUES = <<1, 3>>
    /\ Len(valid.index) = 4
    /\ train.rows # train_rows(energy, valid_start_dt, <<"load", "temp">>).rows
    /\ valid.rows # valid_of(3).rows
    /\ test.rows # test_of.rows
    /\ Len(train_inputs.dataframe.index) > 0

====
